---- MODULE Spec2Model ----
(***************************************************************************)
(* A model of the tween engine of src/src/utils/Tween.ts: the static       *)
(* registry Tween.tweens, the requestAnimationFrame loop and the           *)
(* per-tween operations, with JavaScript's number arithmetic kept exact    *)
(* on rationals and extended by NaN and the two infinities.                *)
(***************************************************************************)
EXTENDS Integers, Sequences, FiniteSets, TLC

----------------------------------------------------------------------------
(* Bounds of the model *)

\* the clock performance.now() runs over 0..MaxTime in Spec and over
\* 0..MaxTimingTime in SpecTiming
MaxTime == 1
MaxTimingTime == 2
\* at most MaxTweens tweens are ever constructed
MaxTweens == 2
\* at most MaxRetargets calls of updateTarget are made
MaxRetargets == 1

----------------------------------------------------------------------------
(* JavaScript numbers: a finite number is a normalised fraction n/d, d > 0;  *)
(* d = 0 encodes the non-finite values: NaN (n = 0), +Infinity (n = 1) and   *)
(* -Infinity (n = -1). Negative zero is not distinguished from zero.         *)

Abs(i) == IF i < 0 THEN -i ELSE i

Sign(i) == IF i < 0 THEN -1 ELSE IF i > 0 THEN 1 ELSE 0

RECURSIVE GCD(_, _)
GCD(a, b) == IF b = 0 THEN a ELSE GCD(b, a % b)

\* the fraction n/d (d > 0) in lowest terms
Num(n, d) == LET g == GCD(Abs(n), d) IN [n |-> n \div g, d |-> d \div g]

\* an integer literal
I(i) == [n |-> i, d |-> 1]

NaN == [n |-> 0, d |-> 0]
Zero == I(0)
One == I(1)
Half == Num(1, 2)

IsNaN(a) == a.d = 0 /\ a.n = 0
IsFinite(a) == a.d > 0

NNeg(a) == [n |-> -a.n, d |-> a.d]

\* a + b
NAdd(a, b) ==
  IF IsNaN(a) \/ IsNaN(b) THEN NaN
  ELSE IF a.d = 0 /\ b.d = 0 THEN (IF a.n = b.n THEN a ELSE NaN)
  ELSE IF a.d = 0 THEN a
  ELSE IF b.d = 0 THEN b
  ELSE Num(a.n * b.d + b.n * a.d, a.d * b.d)

\* a - b
NSub(a, b) == NAdd(a, NNeg(b))

\* a * b
NMul(a, b) ==
  IF IsNaN(a) \/ IsNaN(b) THEN NaN
  ELSE IF a.d = 0 \/ b.d = 0
       THEN (IF a.n = 0 \/ b.n = 0 THEN NaN
             ELSE [n |-> Sign(a.n) * Sign(b.n), d |-> 0])
  ELSE Num(a.n * b.n, a.d * b.d)

\* a / b
NDiv(a, b) ==
  IF IsNaN(a) \/ IsNaN(b) THEN NaN
  ELSE IF a.d = 0 /\ b.d = 0 THEN NaN
  ELSE IF a.d = 0 THEN (IF b.n < 0 THEN NNeg(a) ELSE a)
  ELSE IF b.d = 0 THEN Zero
  ELSE IF b.n = 0 THEN (IF a.n = 0 THEN NaN ELSE [n |-> Sign(a.n), d |-> 0])
  ELSE Num(a.n * b.d * Sign(b.n), a.d * Abs(b.n))

\* a < b (false when either is NaN)
NLess(a, b) ==
  IF IsNaN(a) \/ IsNaN(b) THEN FALSE
  ELSE IF a.d = 0 /\ b.d = 0 THEN a.n < b.n
  ELSE IF a.d = 0 THEN a.n < 0
  ELSE IF b.d = 0 THEN b.n > 0
  ELSE a.n * b.d < b.n * a.d

\* a >= b (false when either is NaN)
NGe(a, b) == ~IsNaN(a) /\ ~IsNaN(b) /\ ~NLess(a, b)

\* Math.min(a, b)
MathMin(a, b) ==
  IF IsNaN(a) \/ IsNaN(b) THEN NaN ELSE IF NLess(b, a) THEN b ELSE a

\* Number(v) || 0 : NaN and 0 are falsy
NumberOrZero(v) == IF IsNaN(v) \/ v = Zero THEN Zero ELSE v

----------------------------------------------------------------------------
(* Easing functions *)

\* a curve with the ends of linear and another middle
linearSquared(t) == NMul(t, t)

linear(t) == t

easeInOutQuad(t) ==
  IF NLess(t, Half)
  THEN NMul(NMul(I(2), t), t)
  ELSE NAdd(I(-1), NMul(NSub(I(4), NMul(I(2), t)), t))

easeInQuad(t) == NMul(t, t)

easeOutQuad(t) == NMul(t, NSub(I(2), t))

easeInCubic(t) == NMul(NMul(t, t), t)

\* (t--) * t * t + 1: the decrement after the first read of t
easeOutCubicPostDecrement(t) ==
  LET t1 == NSub(t, One) IN NAdd(NMul(NMul(t, t1), t1), One)

\* (--t) * t * t + 1
easeOutCubic(t) ==
  LET t1 == NSub(t, One) IN NAdd(NMul(NMul(t1, t1), t1), One)

easeInOutCubic(t) ==
  IF NLess(t, Half)
  THEN NMul(NMul(NMul(I(4), t), t), t)
  ELSE NAdd(NMul(NMul(NSub(t, One), NSub(NMul(I(2), t), I(2))),
                 NSub(NMul(I(2), t), I(2))),
            One)

\* Math.cos(Math.PI * t) where the result is exact: Math.cos(0) is 1 and
\* Math.cos(Math.PI) is -1
CosPi(t) ==
  CASE t = Zero -> One
    [] t = One -> I(-1)

easeInOutSine(t) == NDiv(NNeg(NSub(CosPi(t), One)), I(2))

c1 == Num(170158, 100000)
c2 == NMul(c1, Num(1525, 1000))

\* Math.pow(a, 2)
Square(a) == NMul(a, a)

easeInOutBack(t) ==
  IF NLess(t, Half)
  THEN NDiv(NMul(Square(NMul(I(2), t)),
                 NSub(NMul(NMul(NAdd(c2, One), I(2)), t), c2)),
            I(2))
  ELSE NDiv(NAdd(NMul(Square(NSub(NMul(I(2), t), I(2))),
                      NAdd(NMul(NAdd(c2, One), NSub(NMul(t, I(2)), I(2))), c2)),
                 I(2)),
            I(2))

\* the easing functions the library exports
Easings ==
  {"linear", "easeInQuad", "easeOutQuad", "easeInOutQuad", "easeInCubic",
   "easeOutCubic", "easeInOutCubic", "easeInOutSine", "easeInOutBack"}

\* the easing function a tween of the runs of the engine holds, applied by
\* name
Ease(name, t) ==
  CASE name = "linear" -> linear(t)
    [] name = "easeInOutQuad" -> easeInOutQuad(t)

\* any easing function of Tween.ts, applied by name
EaseByName(name, t) ==
  CASE name \in {"linear", "easeInOutQuad"} -> Ease(name, t)
    [] name = "easeInQuad" -> easeInQuad(t)
    [] name = "easeOutQuad" -> easeOutQuad(t)
    [] name = "easeInCubic" -> easeInCubic(t)
    [] name = "easeOutCubic" -> easeOutCubic(t)
    [] name = "easeInOutCubic" -> easeInOutCubic(t)
    [] name = "easeInOutSine" -> easeInOutSine(t)
    [] name = "easeInOutBack" -> easeInOutBack(t)

----------------------------------------------------------------------------
(* JavaScript numbers with their rounding: a finite double is a sign s and  *)
(* the set b of the exponents of the powers of two that add up to its       *)
(* magnitude, at most 53 consecutive binary digits wide; b = {} is zero.    *)
(* Exponents stay far from the limits of the format (no overflow, no        *)
(* subnormal numbers).                                                       *)

MaxOf(S) == CHOOSE m \in S : \A k \in S : k <= m

\* A + B, exactly
RECURSIVE BitsAdd(_, _)
BitsAdd(A, B) ==
  IF B = {} THEN A
  ELSE LET carry == A \cap B
       IN BitsAdd((A \cup B) \ carry, {k + 1 : k \in carry})

\* A - B for A >= B, exactly
RECURSIVE BitsSub(_, _)
BitsSub(A, B) ==
  IF B = {} THEN A
  ELSE LET borrow == B \ A
       IN BitsSub((A \cup B) \ (A \cap B), {k + 1 : k \in borrow})

\* A < B
BitsLess(A, B) ==
  LET differ == (A \ B) \cup (B \ A) IN differ # {} /\ MaxOf(differ) \in B

\* the 53-digit number nearest to A, ties to the even one
RoundToDouble(A) ==
  IF A = {} THEN {}
  ELSE LET cut == MaxOf(A) - 52
           kept == {k \in A : k >= cut}
           half == (cut - 1) \in A
           sticky == \E k \in A : k < cut - 1
       IN IF half /\ (sticky \/ cut \in kept)
          THEN BitsAdd(kept, {cut}) ELSE kept

FZero == [s |-> 1, b |-> {}]

FNeg(a) == [s |-> -a.s, b |-> a.b]

\* a + b in double arithmetic
FAdd(a, b) ==
  IF a.s = b.s THEN [s |-> a.s, b |-> RoundToDouble(BitsAdd(a.b, b.b))]
  ELSE IF a.b = b.b THEN FZero
  ELSE IF BitsLess(a.b, b.b)
       THEN [s |-> b.s, b |-> RoundToDouble(BitsSub(b.b, a.b))]
       ELSE [s |-> a.s, b |-> RoundToDouble(BitsSub(a.b, b.b))]

\* a - b in double arithmetic
FSub(a, b) == FAdd(a, FNeg(b))

\* the sum of the copies of A shifted by the exponents in B, exactly
RECURSIVE ShiftSum(_, _)
ShiftSum(A, B) ==
  IF B = {} THEN {}
  ELSE LET k == MaxOf(B)
       IN BitsAdd({j + k : j \in A}, ShiftSum(A, B \ {k}))

\* A * B, exactly: the shifted copies of A are summed over the exponents
\* in B, eight exponents at a time
RECURSIVE BitsMul(_, _)
BitsMul(A, B) ==
  IF B = {} THEN {}
  ELSE LET top == {k \in B : k > MaxOf(B) - 8}
       IN BitsAdd(ShiftSum(A, top), BitsMul(A, B \ top))

\* a * b in double arithmetic
FMul(a, b) == [s |-> a.s * b.s, b |-> RoundToDouble(BitsMul(a.b, b.b))]

\* the binary digits of the natural number n
IntBits(n) == {k \in 0 .. 30 : (n \div (2 ^ k)) % 2 = 1}

\* the binary digits of r / d (r < d) from exponent k down to exponent
\* stop, eight at a time, and one digit below stop when a remainder is left
RECURSIVE FracBits(_, _, _, _)
FracBits(r, d, k, stop) ==
  IF k < stop THEN (IF r # 0 THEN {k} ELSE {})
  ELSE LET q == (r * 256) \div d
       IN {k - 7 + j : j \in IntBits(q)}
            \cup FracBits((r * 256) % d, d, k - 8, stop)

\* the double a numeric literal n/d denotes: the nearest one
\* (0 <= n, 0 < d, and n/d is 0 or at least 2^-8)
Literal(n, d) ==
  [s |-> 1,
   b |-> RoundToDouble(IntBits(n \div d) \cup FracBits(n % d, d, -1, -64))]

\* the double of the number e, which is 0 or a fraction of two small
\* naturals that a double holds exactly
Double(e) ==
  CASE e = Zero -> FZero
    [] e.n > 0 /\ e.d > 0 -> Literal(e.n, e.d)

\* one digit of a long division by B: S holds the remainder r and the
\* digits q found so far, k is the exponent of the digit
DivStep(S, B, k) ==
  LET shifted == {j + k : j \in B}
  IN IF BitsLess(S.r, shifted) THEN S
     ELSE [r |-> BitsSub(S.r, shifted), q |-> S.q \cup {k}]

\* the digits of a long division by B from exponent k down to exponent
\* stop, four at a time, and one digit below stop when a remainder is left
RECURSIVE DivBits(_, _, _, _)
DivBits(S, B, k, stop) ==
  IF S.r = {} THEN S.q
  ELSE IF k < stop THEN S.q \cup {k}
  ELSE DivBits(DivStep(DivStep(DivStep(DivStep(S, B, k), B, k - 1),
                               B, k - 2), B, k - 3),
               B, k - 4, stop)

\* a / b in double arithmetic, b not 0
FDiv(a, b) ==
  IF a.b = {} THEN FZero
  ELSE LET k == MaxOf(a.b) - MaxOf(b.b)
       IN [s |-> a.s * b.s,
           b |-> RoundToDouble(DivBits([r |-> a.b, q |-> {}], b.b,
                                       k, k - 55))]

\* a < b in double arithmetic, a and b not negative
FLess(a, b) == BitsLess(a.b, b.b)

\* Number(v) || 0 on doubles: 0 is falsy
FNumberOrZero(v) == IF v.b = {} THEN FZero ELSE v

\* from + (to - from) * easedProgress in double arithmetic
FInterpolate(from, to, easedProgress) ==
  FAdd(from, FMul(FSub(to, from), easedProgress))

----------------------------------------------------------------------------
(* State *)

VARIABLES
  now,          \* performance.now(), in ms
  tweens,       \* Tween.tweens: the active set, a sequence of tween ids
  isRunning,    \* Tween.isRunning
  animationId,  \* Tween.animationId: "undefined", or the handle of a frame
                \* request that is still "pending" or has fired ("stale")
  frames,       \* number of requestAnimationFrame callbacks waiting to fire
  tw,           \* the Tween objects ever constructed, by id (1..Len(tw))
  x,            \* x[id]: the field target.x of tween id's target object
  destroyed,    \* destroyed[id]: the target object was destroyed elsewhere;
                \* reading or assigning its field throws
  retargets,    \* number of updateTarget calls made so far
  endpoint,     \* one tween's field computed in double arithmetic, or Idle
  phoenix,      \* the PhoenixFlameScene object, or Idle
  ace,          \* the AceOfShadowsScene object, or Idle
  loader,       \* the ImageLoader class and the images it loads, or Idle
  manager,      \* the SceneManager object and its scenes' views, or Idle
  resizer,      \* the ResizeManager class and the window's timers, or Idle
  h             \* history of the last handler and of what happened to each
                \* tween (observations only: no operation reads it)

vars ==
  <<now, tweens, isRunning, animationId, frames, tw, x, destroyed, retargets, h,
    endpoint, phoenix, ace, loader, manager, resizer>>

\* the value of a variable whose object is not part of the run
Idle == [idle |-> TRUE]

\* the objects of the application other than the tween engine
others == <<endpoint, phoenix, ace, loader, manager, resizer>>


\* h.pausedReset holds <<id, T>> while tween id is paused and its last
\* retarget with resetTime = true was made at T during that pause.

\* what a completion callback does when it is invoked: there is none, it
\* does nothing, it throws, it constructs another tween, it stops another
\* tween. A callback is client code and runs at most once per tween, so
\* what it does is an input of the frame in which it runs.
OnCompletes == {"none", "noop", "throw", "create", "stopPeer"}

\* the same for a client that shuts the engine down from a callback: the
\* callback does nothing, constructs another tween or calls Tween.destroy()
DestroyOnCompletes == {"noop", "create", "destroy"}
\* destination of a constructed tween, and of a retarget
ToValue == I(4)
NewToValue == I(8)

\* the engine's state as one value, threaded through the operations;
\* iterated is <<a>> while a filter is reading an array a that stopAll()
\* has replaced as Tween.tweens, and <<>> otherwise
Engine ==
  [tweens |-> tweens, isRunning |-> isRunning, animationId |-> animationId,
   frames |-> frames, tw |-> tw, x |-> x, destroyed |-> destroyed,
   retargets |-> retargets, h |-> h, iterated |-> <<>>]

Install(E) ==
  /\ tweens' = E.tweens
  /\ isRunning' = E.isRunning
  /\ animationId' = E.animationId
  /\ frames' = E.frames
  /\ tw' = E.tw
  /\ x' = E.x
  /\ destroyed' = E.destroyed
  /\ retargets' = E.retargets
  /\ h' = E.h

Ids(E) == 1 .. Len(E.tw)

InActive(E, id) == \E k \in 1 .. Len(E.tweens) : E.tweens[k] = id

\* the history at the start of handler op on tween id: what is recorded per
\* handler is cleared, what is recorded per tween is kept
Begin(E, op, id, reset) ==
  [E EXCEPT !.retargets = IF op = "updateTarget" THEN @ + 1 ELSE @,
            !.h = [@ EXCEPT !.op = op, !.id = id, !.reset = reset,
                            !.progs = {}, !.start = {}, !.visited = {},
                            !.wrote = {}, !.cancelledNow = {},
                            !.assignThrew = {}, !.cbThrew = {},
                            !.cb = <<>>, !.resumedClean = FALSE]]

InitHistory ==
  [op |-> "init", id |-> 0, reset |-> FALSE, progs |-> {}, start |-> {},
   visited |-> {}, wrote |-> {}, cancelledNow |-> {}, assignThrew |-> {},
   cbThrew |-> {}, cb |-> <<>>, resumedClean |-> FALSE,
   cancelled |-> {}, stopped |-> {}, completed |-> {}, lateWrite |-> {},
   lateComplete |-> {}, progAtPause |-> <<>>, clean |-> {},
   terminal |-> {}, recompleted |-> {}, wroteAfterTerminal |-> {},
   pausedReset |-> {}]

Init ==
  /\ now = 0
  /\ tweens = <<>>
  /\ isRunning = FALSE
  /\ animationId = "undefined"
  /\ frames = 0
  /\ tw = <<>>
  /\ x = <<>>
  /\ destroyed = <<>>
  /\ retargets = 0
  /\ h = InitHistory
  /\ endpoint = Idle
  /\ phoenix = Idle
  /\ ace = Idle
  /\ loader = Idle
  /\ manager = Idle
  /\ resizer = Idle

----------------------------------------------------------------------------
(* Tween.ts: the operations, as functions of the engine state E and of     *)
(* t = performance.now()                                                   *)

\* requestAnimationFrame(animate)
requestAnimationFrame(E) ==
  [E EXCEPT !.animationId = "pending", !.frames = @ + 1]

startAnimationLoop(E) ==
  IF E.isRunning THEN E
  ELSE requestAnimationFrame([E EXCEPT !.isRunning = TRUE])

\* new Tween(cfg) on a fresh target whose field holds cfg.x0
constructor(E, cfg, t) ==
  LET id == Len(E.tw) + 1
      this == [startTime |-> t, duration |-> cfg.duration,
               from |-> NumberOrZero(cfg.x0), to |-> cfg.to,
               easing |-> cfg.easing, hasCheck |-> cfg.hasCheck,
               finished |-> FALSE, paused |-> FALSE, pauseTime |-> 0]
      E1 == [E EXCEPT !.tw = Append(@, this),
                      !.x = Append(@, cfg.x0),
                      !.destroyed = Append(@, FALSE),
                      !.tweens = Append(@, id),
                      !.h.progAtPause = Append(@, NaN)]
  IN startAnimationLoop(E1)

\* tween.updateTarget({x: newTo}, resetTime)
updateTarget(E, id, newTo, resetTime, t) ==
  LET E1 == [E EXCEPT !.tw[id].to = newTo]
  IN IF E.destroyed[id]
     THEN E1  \* reading target[key] throws: caught and logged by the method
     ELSE LET E2 == [E1 EXCEPT !.tw[id].from = NumberOrZero(E.x[id])]
          IN IF resetTime
             THEN [E2 EXCEPT !.tw[id].startTime = t, !.tw[id].pauseTime = 0]
             ELSE E2

pause(E, id, t) ==
  IF ~E.tw[id].paused
  THEN [E EXCEPT !.tw[id].pauseTime = t, !.tw[id].paused = TRUE]
  ELSE E

\* resume() without the shift of startTime by the time spent paused
resumeWithoutShift(E, id, t) ==
  IF E.tw[id].paused
  THEN [E EXCEPT !.tw[id].paused = FALSE]
  ELSE E

resume(E, id, t) ==
  IF E.tw[id].paused
  THEN [E EXCEPT !.tw[id].startTime = @ + (t - E.tw[id].pauseTime),
                 !.tw[id].paused = FALSE]
  ELSE E

\* Tween.tweens.indexOf(id): 0 when absent
IndexOf(s, id) ==
  IF \E k \in 1 .. Len(s) : s[k] = id
  THEN CHOOSE k \in 1 .. Len(s) : s[k] = id /\ \A j \in 1 .. (k - 1) : s[j] # id
  ELSE 0

\* s.splice(k, 1)
Splice(s, k) == [j \in 1 .. (Len(s) - 1) |-> IF j < k THEN s[j] ELSE s[j + 1]]

\* stop() that takes the tween out of the array and leaves finished as it is
stopWithoutFinishing(E, id) ==
  LET index == IndexOf(E.tweens, id)
  IN IF index > 0 THEN [E EXCEPT !.tweens = Splice(@, index)] ELSE E

stop(E, id) ==
  LET E1 == [E EXCEPT !.tw[id].finished = TRUE]
      index == IndexOf(E.tweens, id)
  IN IF index > 0 THEN [E1 EXCEPT !.tweens = Splice(@, index)] ELSE E1

\* Tween.tweens.forEach(tween => tween.stop()) from index k on: the array
\* is read in place, at the indices below the length len it had when
\* forEach was called, while stop() splices it
RECURSIVE stopEach(_, _, _)
stopEach(E, k, len) ==
  IF k > len \/ k > Len(E.tweens) THEN E
  ELSE stopEach(stop(E, E.tweens[k]), k + 1, len)

\* Tween.stopAll(): Tween.tweens becomes a new empty array; a filter that
\* is running goes on reading the array it was called on
stopAll(E) ==
  LET S == stopEach(E, 1, Len(E.tweens))
  IN [S EXCEPT !.tweens = <<>>,
               !.iterated = IF @ = <<>> THEN <<S.tweens>> ELSE @]

\* cancelAnimationFrame(Tween.animationId): the frame requested last is
\* taken back if it has not run yet
cancelAnimationFrame(E) ==
  IF E.animationId = "pending" THEN [E EXCEPT !.frames = @ - 1] ELSE E

\* Tween.destroy()
destroy(E) ==
  LET E1 == stopAll(E)
      E2 == IF E1.animationId # "undefined"
            THEN [cancelAnimationFrame(E1) EXCEPT !.animationId = "undefined"]
            ELSE E1
  IN [E2 EXCEPT !.isRunning = FALSE]

\* elapsed / duration, capped by Math.min(1, .)
Progress(this, t) ==
  MathMin(One, NDiv(I(t - this.startTime), I(this.duration)))

\* tween.getProgress() at time t
getProgress(this, t) ==
  IF this.finished THEN One
  ELSE IF this.paused
       THEN NDiv(I(this.pauseTime - this.startTime), I(this.duration))
       ELSE MathMin(One, NDiv(I(t - this.startTime), I(this.duration)))

\* from + (to - from) * easedProgress
Interpolate(this, easedProgress) ==
  NAdd(this.from, NMul(NSub(this.to, this.from), easedProgress))

\* the value update(t) assigns to target.x
ValueAt(this, t) == Interpolate(this, Ease(this.easing, Progress(this, t)))

\* the liveness check a client passes as checkTarget: the target still exists
checkTarget(E, id) == ~E.destroyed[id]

\* the tween a "create" completion callback constructs
ChildConfig ==
  [duration |-> 1, easing |-> "linear", hasCheck |-> FALSE,
   to |-> ToValue, x0 |-> Zero]

\* the tween a "stopPeer" completion callback holds a handle of
Peer(id) == IF id = 1 THEN 2 ELSE id - 1

\* the history once tween id's completion callback has been invoked
CompletionNoted(hist, id) ==
  [hist EXCEPT !.completed = @ \cup {id},
               !.recompleted =
                  IF id \in hist.completed THEN @ \cup {id} ELSE @,
               !.lateComplete =
                  IF id \in (hist.stopped \cup hist.cancelled)
                  THEN @ \cup {id} ELSE @]

\* the history once an update has written tween id's field
WriteNoted(hist, id) ==
  [hist EXCEPT !.wrote = @ \cup {id},
               !.wroteAfterTerminal =
                  IF id \in hist.terminal THEN @ \cup {id} ELSE @,
               !.lateWrite =
                  IF id \in (hist.stopped \cup hist.cancelled)
                  THEN @ \cup {id} ELSE @]

\* the body of tween id's completion callback, which does kind; threw:
\* it ended by throwing
onComplete(E, id, t, kind) ==
  LET E1 == [E EXCEPT !.h = CompletionNoted(@, id)]
  IN CASE kind = "noop" -> [E |-> E1, threw |-> FALSE]
       [] kind = "throw" -> [E |-> E1, threw |-> TRUE]
       [] kind = "destroy" -> [E |-> destroy(E1), threw |-> FALSE]
       [] kind = "create" ->
            \* the model constructs at most MaxTweens tweens
            [E |-> IF Len(E1.tw) < MaxTweens
                   THEN constructor(E1, ChildConfig, t) ELSE E1,
             threw |-> FALSE]
       [] kind = "stopPeer" ->
            [E |-> IF Peer(id) \in Ids(E1)
                   THEN stop([E1 EXCEPT !.h.stopped = @ \cup {Peer(id)}],
                             Peer(id))
                   ELSE E1,
             threw |-> FALSE]

\* a call of the operation with no try/catch around it
unsafeSync(r) == r

\* safeSync(operation): an exception of the operation is caught and logged
safeSync(r) == [E |-> r.E, threw |-> FALSE]

\* update(): the liveness check reported false
updateCancelled(E, id) ==
  [E |-> stop([E EXCEPT !.h.cancelled = @ \cup {id},
                        !.h.cancelledNow = @ \cup {id}], id),
   keep |-> FALSE, threw |-> FALSE]

\* update(): progress >= 1
updateComplete(E, id, t, cb) ==
  LET E1 == [E EXCEPT !.tw[id].finished = TRUE,
                      !.h.terminal = @ \cup {id}]
      r == IF cb[id] # "none"
           THEN safeSync(onComplete(
                  [E1 EXCEPT !.h.cbThrew =
                     IF cb[id] = "throw" THEN @ \cup {id} ELSE @],
                  id, t, cb[id]))
           ELSE [E |-> E1, threw |-> FALSE]
  IN [E |-> r.E, keep |-> FALSE, threw |-> r.threw]

\* update(): elapsed, progress, easing, the assignment, completion
updateStep(E, id, t, cb) ==
  LET this == E.tw[id]
      progress == Progress(this, t)
      E1 == [E EXCEPT !.h.progs = @ \cup {<<id, progress>>}]
  IN IF E.destroyed[id]
     THEN \* this.target[key] = value throws; nothing in update() catches it
          [E |-> [E1 EXCEPT !.h.assignThrew = @ \cup {id}],
           keep |-> FALSE, threw |-> TRUE]
     ELSE LET E2 == [E1 EXCEPT !.x[id] = Interpolate(this, Ease(this.easing, progress)),
                               !.h = WriteNoted(@, id)]
          IN IF NGe(progress, One)
             THEN updateComplete(E2, id, t, cb)
             ELSE [E |-> E2, keep |-> TRUE, threw |-> FALSE]

\* update() whose first statement tests finished only
updateWhilePaused(E, id, t, cb) ==
  LET this == E.tw[id]
      E0 == [E EXCEPT !.h.visited = @ \cup {id}]
  IN IF this.finished
     THEN [E |-> E0, keep |-> FALSE, threw |-> FALSE]
     ELSE updateStep(E0, id, t, cb)

\* tween.update(t): keep is its return value, threw: it ended by throwing;
\* cb[i] is what tween i's completion callback does
update(E, id, t, cb) ==
  LET this == E.tw[id]
      E0 == [E EXCEPT !.h.visited = @ \cup {id}]
  IN IF this.finished \/ this.paused
     THEN [E |-> E0, keep |-> ~this.finished, threw |-> FALSE]
     ELSE IF this.hasCheck /\ ~checkTarget(E0, id)
          THEN updateCancelled(E0, id)
          ELSE updateStep(E0, id, t, cb)

\* Tween.tweens.filter(tween => tween.update(now)) from index k on: the
\* array is read in place, at the indices below the length len it had when
\* filter was called, while update() may splice it or push to it; res
\* collects the tweens kept
RECURSIVE filter(_, _, _, _, _, _)
filter(E, k, len, res, t, cb) ==
  LET array == IF E.iterated # <<>> THEN E.iterated[1] ELSE E.tweens
  IN
  IF k > len THEN [E |-> E, res |-> res, threw |-> FALSE]
  ELSE IF k > Len(array) THEN filter(E, k + 1, len, res, t, cb)
  ELSE LET id == array[k]
           r == update(E, id, t, cb)
       IN IF r.threw THEN [E |-> r.E, res |-> res, threw |-> TRUE]
          ELSE filter(r.E, k + 1, len,
                      IF r.keep THEN Append(res, id) ELSE res, t, cb)

\* Tween.tick()
tick(E, t, cb) ==
  LET E0 == [E EXCEPT !.h.start =
               {id \in Ids(E) : InActive(E, id) /\ ~E.tw[id].finished}]
      r == filter(E0, 1, Len(E0.tweens), <<>>, t, cb)
  IN IF r.threw THEN [E |-> r.E, threw |-> TRUE]
     ELSE [E |-> [r.E EXCEPT !.tweens = r.res], threw |-> FALSE]

\* the frame callback animate() of startAnimationLoop
animate(E, t, cb) ==
  LET r == tick(E, t, cb)
  IN IF r.threw THEN r.E  \* the exception leaves animate(): no new request
     ELSE IF Len(r.E.tweens) > 0 THEN requestAnimationFrame(r.E)
     ELSE [r.E EXCEPT !.isRunning = FALSE, !.animationId = "undefined"]

----------------------------------------------------------------------------
(* Actions: one per call of the public interface, and the environment     *)

\* new Tween({target, to, duration, easing, checkTarget, onComplete})
Create(cfg) ==
  /\ Len(tw) < MaxTweens
  /\ Install(constructor(Begin(Engine, "create", Len(tw) + 1, FALSE), cfg, now))
  /\ UNCHANGED now

\* tween.updateTarget({x: NewToValue}, resetTime)
UpdateTarget(id, resetTime) ==
  /\ retargets < MaxRetargets
  /\ Install(updateTarget([Begin(Engine, "updateTarget", id, resetTime)
                             EXCEPT !.h.clean = @ \ {id},
                                    !.h.pausedReset =
                                      IF resetTime /\ tw[id].paused
                                      THEN {<<id, now>>} ELSE @],
                          id, NewToValue, resetTime, now))
  /\ UNCHANGED now

\* tween.pause()
Pause(id) ==
  /\ Install(pause([Begin(Engine, "pause", id, FALSE)
                      EXCEPT !.h.progAtPause[id] =
                               IF tw[id].paused THEN @ ELSE Progress(tw[id], now),
                             !.h.clean =
                               IF tw[id].paused THEN @ ELSE @ \cup {id}],
                   id, now))
  /\ UNCHANGED now

\* tween.resume()
Resume(id) ==
  /\ Install(resume([Begin(Engine, "resume", id, FALSE)
                       EXCEPT !.h.clean = @ \ {id},
                              !.h.pausedReset = {},
                              !.h.resumedClean = id \in h.clean],
                     id, now))
  /\ UNCHANGED now

\* tween.stop()
Stop(id) ==
  /\ Install(stop([Begin(Engine, "stop", id, FALSE)
                     EXCEPT !.h.stopped = @ \cup {id},
                            !.h.clean = @ \ {id}], id))
  /\ UNCHANGED now

\* Tween.stopAll()
StopAll ==
  /\ Install(stopAll([Begin(Engine, "stopAll", 0, FALSE)
                        EXCEPT !.h.start = {id \in 1 .. Len(tw) : InActive(Engine, id)}]))
  /\ UNCHANGED now

\* the browser runs a requested frame callback; cb[id] is what the
\* completion callback of tween id does if this frame invokes it
Frame(cb) ==
  /\ frames > 0
  /\ Install(animate([Begin(Engine, "frame", 0, FALSE)
                        EXCEPT !.frames = @ - 1,
                               !.h.cb = cb,
                               !.animationId =
                                 IF @ = "pending" /\ frames = 1
                                 THEN "stale" ELSE @],
                     now, cb))
  /\ UNCHANGED now

\* Tween.destroy()
Destroy ==
  /\ Install(destroy(Begin(Engine, "destroy", 0, FALSE)))
  /\ UNCHANGED now

\* time passes, up to limit
Advance(limit) ==
  /\ now < limit
  /\ now' = now + 1
  /\ h' = Begin(Engine, "advance", 0, FALSE).h
  /\ UNCHANGED <<tweens, isRunning, animationId, frames, tw, x, destroyed, retargets>>

\* the target of a tween that is still animating is destroyed by its owner
DestroyTarget(id) ==
  /\ InActive(Engine, id)
  /\ ~tw[id].finished
  /\ ~destroyed[id]
  /\ destroyed' = [destroyed EXCEPT ![id] = TRUE]
  /\ h' = Begin(Engine, "destroyTarget", id, FALSE).h
  /\ UNCHANGED <<now, tweens, isRunning, animationId, frames, tw, x,
                 retargets>>

\* the tweens whose update() at the current time reaches progress >= 1
Completing ==
  {id \in 1 .. Len(tw) :
     /\ ~tw[id].finished
     /\ ~tw[id].paused
     /\ NGe(Progress(tw[id], now), One)}

\* what the completion callbacks do in a frame: only the callbacks of the
\* tweens in completing, which the frame can complete, are given a choice
Scripts(completing) ==
  {[id \in 1 .. Len(tw) |-> IF id \in completing THEN c[id] ELSE "none"] :
     c \in [completing -> OnCompletes]}

Callbacks == LET completing == Completing IN Scripts(completing)

\* the same, when the callbacks do one of DestroyOnCompletes
DestroyCallbacks ==
  LET completing == Completing
  IN {[id \in 1 .. Len(tw) |-> IF id \in completing THEN c[id] ELSE "none"] :
        c \in [completing -> DestroyOnCompletes]}

----------------------------------------------------------------------------
(* Spec: the registry Tween.tweens and the frame loop under completion     *)
(* callbacks, stop, cancellation and failing targets; the tweens run       *)
(* linearly for 1 or 2 ms                                                  *)

LoopConfig(duration, hasCheck) ==
  [duration |-> duration, easing |-> "linear", hasCheck |-> hasCheck,
   to |-> ToValue, x0 |-> Zero]

LoopConfigs ==
  {LoopConfig(1, FALSE), LoopConfig(1, TRUE), LoopConfig(2, FALSE)}

Next ==
  \/ \E cfg \in LoopConfigs : Create(cfg) /\ UNCHANGED others
  \/ \E id \in 1 .. Len(tw) : Stop(id) /\ UNCHANGED others
  \/ \E id \in 1 .. Len(tw) : DestroyTarget(id) /\ UNCHANGED others
  \/ \E cb \in Callbacks : Frame(cb) /\ UNCHANGED others
  \/ Advance(MaxTime) /\ UNCHANGED others

Spec == Init /\ [][Next]_vars

----------------------------------------------------------------------------
(* SpecTiming: the clock arithmetic of one tween on its own, which reads   *)
(* no other tween's state: duration, easing, pause, resume and retarget.   *)
(* Its completion callback does nothing.                                   *)

TimingConfigs ==
  [duration : {-2, 0, 2}, easing : {"linear", "easeInOutQuad"},
   hasCheck : {FALSE}, to : {ToValue}, x0 : {I(2)}]

NoCallbacks == [id \in 1 .. Len(tw) |-> "noop"]

NextTiming ==
  \/ \E cfg \in TimingConfigs : tw = <<>> /\ Create(cfg) /\ UNCHANGED others
  \/ \E id \in 1 .. Len(tw), resetTime \in BOOLEAN :
       UpdateTarget(id, resetTime) /\ UNCHANGED others
  \/ \E id \in 1 .. Len(tw) : Pause(id) /\ UNCHANGED others
  \/ \E id \in 1 .. Len(tw) : Resume(id) /\ UNCHANGED others
  \/ Frame(NoCallbacks) /\ UNCHANGED others
  \/ Advance(MaxTimingTime) /\ UNCHANGED others

SpecTiming == Init /\ [][NextTiming]_vars

----------------------------------------------------------------------------
(* SpecStopAll: the registry under Tween.stopAll(): tweens are created,    *)
(* frames run them and complete them, stopAll() is called at any point.    *)
(* The completion callbacks do nothing.                                    *)

NextStopAll ==
  \/ \E cfg \in LoopConfigs : Create(cfg) /\ UNCHANGED others
  \/ StopAll /\ UNCHANGED others
  \/ Frame(NoCallbacks) /\ UNCHANGED others
  \/ Advance(MaxTime) /\ UNCHANGED others

SpecStopAll == Init /\ [][NextStopAll]_vars

----------------------------------------------------------------------------
(* SpecDestroy: the frame requests under Tween.destroy(): tweens of 1 or   *)
(* 2 ms are created, stopped and completed, stopAll() and destroy() are    *)
(* called by client code at any point, and a completion callback may       *)
(* construct a tween or call destroy() while the tick is running           *)

\* client code constructs at most MaxDestroyTweens tweens
MaxDestroyTweens == 3

\* new Tween({target, to, duration, easing, onComplete})
CreateTween(cfg) ==
  /\ Len(tw) < MaxDestroyTweens
  /\ Install(constructor(Begin(Engine, "create", Len(tw) + 1, FALSE), cfg, now))
  /\ UNCHANGED now

NextDestroy ==
  \/ \E cfg \in {LoopConfig(1, FALSE), LoopConfig(2, FALSE)} :
       CreateTween(cfg) /\ UNCHANGED others
  \/ \E id \in 1 .. Len(tw) : Stop(id) /\ UNCHANGED others
  \/ StopAll /\ UNCHANGED others
  \/ Destroy /\ UNCHANGED others
  \/ \E cb \in DestroyCallbacks : Frame(cb) /\ UNCHANGED others
  \/ Advance(MaxTime) /\ UNCHANGED others

SpecDestroy == Init /\ [][NextDestroy]_vars

----------------------------------------------------------------------------
(* SpecLive: the frame loop when the browser goes on running the frames    *)
(* requested and time goes on: tweens of 1 or 2 ms are created, by client  *)
(* code and by completion callbacks, and none is paused; the clock runs    *)
(* over 0..MaxLiveTime                                                     *)

MaxLiveTime == 2

LiveConfigs == {LoopConfig(1, FALSE), LoopConfig(2, FALSE)}

RunFrame == \E cb \in Callbacks : Frame(cb) /\ UNCHANGED others

PassTime == Advance(MaxLiveTime) /\ UNCHANGED others

NextLive ==
  \/ \E cfg \in LiveConfigs : Create(cfg) /\ UNCHANGED others
  \/ RunFrame
  \/ PassTime

\* a requested frame is run in the end (RunFrame is enabled when frames > 0),
\* and time passes
Fairness ==
  /\ []<>(frames = 0) \/ []<><<RunFrame>>_vars
  /\ WF_vars(PassTime)

SpecLive == Init /\ [][NextLive]_vars /\ Fairness

----------------------------------------------------------------------------
(* SpecEndpoints: the value update() assigns at progress 0 and at          *)
(* progress 1, in double arithmetic, for every easing function and for     *)
(* start and destination values written with one decimal                   *)

\* the values are the literals 0.0, 0.1, ... up to MaxTenths tenths
MaxTenths == 5

Values == {Literal(k, 10) : k \in 0 .. MaxTenths}

\* the tween engine with no tween constructed
EngineIdle ==
  /\ now = 0
  /\ tweens = <<>>
  /\ isRunning = FALSE
  /\ animationId = "undefined"
  /\ frames = 0
  /\ tw = <<>>
  /\ x = <<>>
  /\ destroyed = <<>>
  /\ retargets = 0
  /\ h = InitHistory

\* new Tween({target: {x: x0}, to: {x: to}, duration, easing}): from is
\* captured from the target; progress is that of the last update, NaN
\* when there was none since the creation or the retarget
EndpointTween(easing, x0, to) ==
  [easing |-> easing, from |-> FNumberOrZero(x0), to |-> to, value |-> x0,
   progress |-> NaN, eased |-> NaN, retargets |-> 0]

InitEndpoints ==
  /\ EngineIdle
  /\ endpoint \in {EndpointTween(e, x0, to) :
                     e \in Easings, x0 \in Values, to \in Values}
  /\ phoenix = Idle
  /\ ace = Idle
  /\ loader = Idle
  /\ manager = Idle
  /\ resizer = Idle

\* the progresses at which the easing function is computed without
\* rounding: 0 and 1, and 0.5 where no cosine and no product with c2 is
\* taken there
ExactProgresses(easing) ==
  IF easing \in {"easeInOutSine", "easeInOutBack"}
  THEN {Zero, One} ELSE {Zero, Half, One}

\* update(now) at the time at which elapsed / duration is progress; eased
\* is the easedProgress it computes
EndpointUpdate(progress) ==
  /\ progress \in ExactProgresses(endpoint.easing)
  /\ LET easedProgress == EaseByName(endpoint.easing, progress)
     IN endpoint' =
          [endpoint EXCEPT
             !.value = FInterpolate(endpoint.from, endpoint.to,
                                    Double(easedProgress)),
             !.progress = progress,
             !.eased = easedProgress]
  /\ UNCHANGED <<now, tweens, isRunning, animationId, frames, tw, x, destroyed,
                 retargets, h, phoenix, ace, loader, manager, resizer>>

\* updateTarget({x: newTo})
EndpointRetarget(newTo) ==
  /\ endpoint.retargets < MaxRetargets
  /\ endpoint' =
       [endpoint EXCEPT !.to = newTo,
                        !.from = FNumberOrZero(endpoint.value),
                        !.progress = NaN,
                        !.eased = NaN,
                        !.retargets = @ + 1]
  /\ UNCHANGED <<now, tweens, isRunning, animationId, frames, tw, x, destroyed,
                 retargets, h, phoenix, ace, loader, manager, resizer>>

NextEndpoints ==
  \/ \E progress \in {Zero, Half, One} : EndpointUpdate(progress)
  \/ \E newTo \in Values : EndpointRetarget(newTo)

SpecEndpoints == InitEndpoints /\ [][NextEndpoints]_vars

----------------------------------------------------------------------------
(* SpecDelayed: one tween made by delayedTween(config, delay) and its field *)
(* in double arithmetic. Times are whole numbers of ms; the tween is        *)
(* updated at elapsed times that do not decrease until it has finished.     *)

\* the updates are made at elapsed times up to MaxElapsed
MaxElapsed == 8

\* config.duration
Durations == {2, 4}

\* delay
Delays == {1, 3}

\* linear in double arithmetic
linearF(t) == t

\* easeInOutQuad in double arithmetic
easeInOutQuadF(t) ==
  IF FLess(t, Literal(1, 2))
  THEN FMul(FMul(Literal(2, 1), t), t)
  ELSE FAdd(FNeg(Literal(1, 1)),
            FMul(FSub(Literal(4, 1), FMul(Literal(2, 1), t)), t))

\* config.easing || easeInOutQuad, applied by name
originalEasing(name, t) ==
  CASE name = "linear" -> linearF(t)
    [] name = "easeInOutQuad" -> easeInOutQuadF(t)

\* the easing function delayedTween gives the tween
delayedEasing(name, duration, delay, t) ==
  IF FLess(t, Literal(delay, duration + delay)) THEN FZero
  ELSE LET adjustedT ==
             FDiv(FSub(t, Literal(delay, duration + delay)),
                  Literal(duration, duration + delay))
       IN originalEasing(name, adjustedT)

\* delayedTween({target, to: {x: to}, duration, easing}, delay) on a target
\* whose x is x0; elapsed is the elapsed time of the last update (-1: none
\* yet), eased the easedProgress it computed
delayedTween(easing, x0, to, duration, delay) ==
  [easing |-> easing, duration |-> duration + delay, delay |-> delay,
   configDuration |-> duration,
   from |-> FNumberOrZero(x0), to |-> to, start |-> x0, value |-> x0,
   elapsed |-> -1, eased |-> FZero, finished |-> FALSE]

\* update(now) of the delayed tween at now = startTime + elapsed
delayedUpdate(this, elapsed) ==
  LET progress == IF elapsed >= this.duration THEN Literal(1, 1)
                  ELSE Literal(elapsed, this.duration)
      easedProgress == delayedEasing(this.easing, this.configDuration,
                                     this.delay, progress)
  IN [this EXCEPT !.value = FInterpolate(this.from, this.to, easedProgress),
                  !.elapsed = elapsed,
                  !.eased = easedProgress,
                  !.finished = ~FLess(progress, Literal(1, 1))]

InitDelayed ==
  /\ EngineIdle
  /\ endpoint \in {delayedTween(e, x0, to, duration, delay) :
                     e \in {"linear", "easeInOutQuad"}, x0 \in Values,
                     to \in Values, duration \in Durations, delay \in Delays}
  /\ phoenix = Idle
  /\ ace = Idle
  /\ loader = Idle
  /\ manager = Idle
  /\ resizer = Idle

\* a frame updates the tween at the elapsed time given
DelayedUpdate(elapsed) ==
  /\ ~endpoint.finished
  /\ elapsed >= endpoint.elapsed
  /\ endpoint' = delayedUpdate(endpoint, elapsed)
  /\ UNCHANGED <<now, tweens, isRunning, animationId, frames, tw, x, destroyed,
                 retargets, h, phoenix, ace, loader, manager, resizer>>

NextDelayed == \E elapsed \in 0 .. MaxElapsed : DelayedUpdate(elapsed)

SpecDelayed == InitDelayed /\ [][NextDelayed]_vars

----------------------------------------------------------------------------
(* PhoenixFlameScene: the particle pool. Time is counted in units of which *)
(* a particle lives 11 or 13 (lifeMax = 1500 + Math.random() * 1000 ms)    *)
(* and a frame lasts 1 or 2 (app.ticker.deltaMS). The fields of a particle *)
(* that only feed its picture (velocity, rotation, scale) are left out;    *)
(* the age fraction t they are derived from is recorded. Of the sprite the *)
(* texture, the tint and the alpha are kept.                               *)
(* A run starts with up to 10 frames of one unit that each spawn a         *)
(* particle, the lifetimes following one of three patterns, and goes on    *)
(* with restarts, pointer events and MaxTicks frames of any kind.          *)

\* at most MaxTicks frames are run after the first ones
MaxTicks == 2

maxSprites == 10

LifeMaxes == {11, 13}

DeltaMS == {1, 2}

\* the emitter positions a pointer event can set
EmitterXs == {0, 1}

\* the lifetimes of the particles of the first frames: all short, all
\* long, or long and short in turn
LifePatterns == {"short", "long", "mixed"}

\* new PhoenixFlameScene(app); released[id] counts the calls of
\* spr.destroy() on the sprite of particle id, first says that only first
\* frames were run so far, ticks counts the frames run after them, tock is
\* the parity of the frames run when they are not counted
PhoenixScene(pattern) ==
  [particles |-> <<>>, children |-> <<>>, emitterX |-> 0, spawned |-> 0,
   visible |-> TRUE, tock |-> FALSE, released |-> <<>>, pattern |-> pattern, first |-> TRUE, ticks |-> 0,
   op |-> "new", sizeBefore |-> 0, attempted |-> FALSE,
   spawnChanged |-> FALSE, ts |-> {}, tints |-> {}, alphas |-> {},
   removedNow |-> {}, clearedNow |-> {}]

\* the history of the last handler is cleared when a handler starts
PhoenixBegin(P, op) ==
  [P EXCEPT !.op = op, !.sizeBefore = Len(P.particles), !.attempted = FALSE,
            !.spawnChanged = FALSE, !.ts = {}, !.tints = {}, !.alphas = {},
            !.removedNow = {},
            !.clearedNow = {}]

\* the tints of getFireColor and of the sparks
WhiteHot == 16777215
Yellow == 16755200
Orange == 16737792
RedOrange == 16724736
DarkRed == 13369344
White == 16777215

\* the values of colorIntensity = 0.8 + 0.2 * Math.sin(p.colorPhase)
ColorIntensities == {Num(3, 5), One}

\* the texture spawn() takes for particleType
textureOf(particleType) ==
  IF NLess(particleType, Num(17, 20)) THEN "fire"
  ELSE IF NLess(particleType, Num(19, 20)) THEN "smoke"
  ELSE "spark"

\* getFireColor that scales the bands by intensity
getFireColorByIntensity(lifeProgress, intensity) ==
  LET scaled == NMul(lifeProgress, intensity)
  IN IF NLess(scaled, Num(1, 5)) THEN WhiteHot
     ELSE IF NLess(scaled, Num(2, 5)) THEN Yellow
     ELSE IF NLess(scaled, Num(3, 5)) THEN Orange
     ELSE IF NLess(scaled, Num(4, 5)) THEN RedOrange
     ELSE DarkRed

\* getFireColor(lifeProgress, intensity)
getFireColor(lifeProgress, intensity) ==
  IF NLess(lifeProgress, Num(1, 5)) THEN WhiteHot
  ELSE IF NLess(lifeProgress, Num(2, 5)) THEN Yellow
  ELSE IF NLess(lifeProgress, Num(3, 5)) THEN Orange
  ELSE IF NLess(lifeProgress, Num(4, 5)) THEN RedOrange
  ELSE DarkRed

\* the colour statements of tick() for a particle p of age fraction t: the
\* tint they leave p.spr with
tintOf(p, t, colorIntensity) ==
  IF p.texture = "fire" THEN getFireColor(t, colorIntensity)
  ELSE IF p.texture = "spark" THEN White
  ELSE p.tint

\* intensity: 0.8 + Math.random() * 0.2 of the k-th particle spawned
IntensityOf(k) == IF k % 2 = 1 THEN Num(4, 5) ELSE Num(9, 10)

\* flickerPhase: Math.random() * Math.PI * 2 of the k-th particle spawned,
\* counted in quarter turns; p.flickerSpeed * dt is a quarter turn (and
\* whole turns) for a frame of one unit
FlickerPhaseOf(k) == k % 4

\* Math.sin(flickerPhase), flickerPhase counted in quarter turns
SinQuarter(q) ==
  CASE q % 4 = 0 -> Zero
    [] q % 4 = 1 -> One
    [] q % 4 = 2 -> Zero
    [] q % 4 = 3 -> I(-1)

\* const flicker = 0.8 + 0.2 * Math.sin(p.flickerPhase)
flickerOf(flickerPhase) ==
  NAdd(Num(4, 5), NMul(Num(1, 5), SinQuarter(flickerPhase)))

\* the alpha statement with t for 1 - t
alphaOfAge(t, intensity, flicker) ==
  NMul(NMul(t, intensity), flicker)

\* const alpha = (1 - t) * p.intensity * flicker
alphaOf(t, intensity, flicker) ==
  NMul(NMul(NSub(One, t), intensity), flicker)

\* spawn() without its first statement
spawnUncapped(P, particleType, lifeMax) ==
  LET P0 == [P EXCEPT !.attempted = TRUE]
      id == P0.spawned + 1
  IN [P0 EXCEPT !.spawned = id,
                !.released = Append(@, 0),
                !.particles =
                   Append(@, [id |-> id, life |-> 0, lifeMax |-> lifeMax,
                              texture |-> textureOf(particleType),
                              tint |-> White,
                              intensity |-> IntensityOf(id),
                              flickerPhase |-> FlickerPhaseOf(id),
                              alpha |-> IntensityOf(id)]),
                !.children = Append(@, id)]

\* spawn(), particleType being its first Math.random() and the new particle
\* living lifeMax; a new PIXI.Sprite has the tint 0xffffff
spawn(P, particleType, lifeMax) ==
  LET P0 == [P EXCEPT !.attempted = TRUE]
  IN IF Len(P0.particles) >= maxSprites THEN P0
     ELSE LET id == P0.spawned + 1
          IN [P0 EXCEPT !.spawned = id,
                        !.released = Append(@, 0),
                        !.particles =
                           Append(@, [id |-> id, life |-> 0, lifeMax |-> lifeMax,
                              texture |-> textureOf(particleType),
                              tint |-> White,
                              intensity |-> IntensityOf(id),
                              flickerPhase |-> FlickerPhaseOf(id),
                              alpha |-> IntensityOf(id)]),
                        !.children = Append(@, id)]

\* view.removeChild(spr)
removeChild(children, id) == SelectSeq(children, LAMBDA c : c # id)

\* p.life / p.lifeMax
ageFractionUnclamped(life, lifeMax) == NDiv(I(life), I(lifeMax))

\* const t = Math.min(1, p.life / p.lifeMax)
ageFraction(life, lifeMax) == MathMin(One, NDiv(I(life), I(lifeMax)))

\* the statements under if (t >= 1) without the splice
retireWithoutSplice(P, i, before) ==
  LET p == P.particles[i]
  IN [P EXCEPT !.children = removeChild(@, p.id),
               !.released[p.id] = @ + 1,
               !.removedNow = @ \cup
                  {[id |-> p.id, life |-> p.life, lifeMax |-> p.lifeMax,
                    before |-> before]}]

\* the statements under if (t >= 1): removeChild, destroy, splice(i, 1);
\* before is the age of the particle when the tick began
retire(P, i, before) ==
  LET p == P.particles[i]
  IN [P EXCEPT !.children = removeChild(@, p.id),
               !.released[p.id] = @ + 1,
               !.particles = Splice(@, i),
               !.removedNow = @ \cup
                  {[id |-> p.id, life |-> p.life, lifeMax |-> p.lifeMax,
                    before |-> before]}]

\* the loop of tick() over particles[i], particles[i - 1], ... particles[0]
\* (i counts from 1 here)
RECURSIVE ageParticles(_, _, _, _)
ageParticles(P, i, dt, colorIntensity) ==
  IF i < 1 THEN P
  ELSE LET p == P.particles[i]
           life == p.life + dt
           t == ageFraction(life, p.lifeMax)
           flickerPhase == p.flickerPhase + dt
           flicker == flickerOf(flickerPhase)
           alpha == alphaOf(t, p.intensity, flicker)
           tint == tintOf(p, t, colorIntensity)
           P1 == [P EXCEPT !.particles[i].life = life,
                           !.particles[i].flickerPhase = flickerPhase,
                           !.particles[i].alpha = alpha,
                           !.particles[i].tint = tint,
                           !.ts = @ \cup {<<p.id, t>>},
                           !.alphas = @ \cup
                              {[id |-> p.id, t |-> t, flicker |-> flicker,
                                intensity |-> p.intensity, alpha |-> alpha]},
                           !.tints = @ \cup
                              (IF p.texture = "smoke" THEN {}
                               ELSE {[id |-> p.id, texture |-> p.texture,
                                      t |-> t, tint |-> tint]})]
       IN IF NGe(t, One)
          THEN ageParticles(retire(P1, i, p.life), i - 1, dt, colorIntensity)
          ELSE ageParticles(P1, i - 1, dt, colorIntensity)

\* tick() that adds nothing to p.life
phoenixTickWithoutAging(P, roll, particleType, lifeMax, dt, colorIntensity) ==
  LET P1 == IF roll THEN spawn(P, particleType, lifeMax) ELSE P
      P2 == [P1 EXCEPT !.spawnChanged =
                          <<P1.particles, P1.children, P1.spawned>>
                            # <<P.particles, P.children, P.spawned>>]
  IN ageParticles(P2, Len(P2.particles), 0, colorIntensity)

\* tick(): roll is Math.random() < spawnChance, particleType and lifeMax
\* are the draws of spawn(), dt is app.ticker.deltaMS, colorIntensity is
\* the value of that name; spawnChanged says whether the call of spawn
\* changed the pool or the view
phoenixTick(P, roll, particleType, lifeMax, dt, colorIntensity) ==
  LET P1 == IF roll THEN spawn(P, particleType, lifeMax) ELSE P
      P2 == [P1 EXCEPT !.spawnChanged =
                          <<P1.particles, P1.children, P1.spawned>>
                            # <<P.particles, P.children, P.spawned>>]
  IN ageParticles(P2, Len(P2.particles), dt, colorIntensity)

\* particles.forEach(particle => { removeChild; destroy }) from index i on
RECURSIVE clearParticles(_, _)
clearParticles(P, i) ==
  IF i > Len(P.particles) THEN P
  ELSE LET p == P.particles[i]
       IN clearParticles([P EXCEPT !.children = removeChild(@, p.id),
                                   !.released[p.id] = @ + 1,
                                   !.clearedNow = @ \cup {p.id}],
                         i + 1)

\* restart(), with the layout() it ends by
restart(P) ==
  [clearParticles(P, 1) EXCEPT !.particles = <<>>, !.emitterX = 0]

\* show(), with the layout() it ends by
phoenixShow(P) == [P EXCEPT !.visible = TRUE, !.emitterX = 0]

\* hide()
phoenixHide(P) == [P EXCEPT !.visible = FALSE]

TweenVars ==
  <<now, tweens, isRunning, animationId, frames, tw, x, destroyed, retargets, h>>

LifeOf(pattern, k) ==
  CASE pattern = "short" -> 11
    [] pattern = "long" -> 13
    [] pattern = "mixed" -> IF k % 2 = 1 THEN 13 ELSE 11

\* the particleType of the k-th particle spawned: fire, smoke and spark in
\* turn
ParticleTypeOf(k) ==
  CASE k % 3 = 1 -> Num(1, 2)
    [] k % 3 = 2 -> Num(9, 10)
    [] k % 3 = 0 -> Num(24, 25)

InitPhoenix ==
  /\ EngineIdle
  /\ endpoint = Idle
  /\ phoenix \in {PhoenixScene(pattern) : pattern \in LifePatterns}
  /\ ace = Idle
  /\ loader = Idle
  /\ manager = Idle
  /\ resizer = Idle

\* the ticker calls tick: a frame of one unit that spawns a particle
PhoenixFirstTick(colorIntensity) ==
  /\ phoenix.first
  /\ phoenix.spawned < maxSprites
  /\ phoenix' = phoenixTick(PhoenixBegin(phoenix, "tick"), TRUE,
                            ParticleTypeOf(phoenix.spawned + 1),
                            LifeOf(phoenix.pattern, phoenix.spawned + 1), 1,
                            colorIntensity)
  /\ UNCHANGED <<TweenVars, endpoint, ace, loader, manager, resizer>>

\* the ticker calls tick
PhoenixTick(roll, lifeMax, dt, colorIntensity) ==
  /\ phoenix.ticks < MaxTicks
  /\ phoenix' = [phoenixTick(PhoenixBegin(phoenix, "tick"), roll,
                             ParticleTypeOf(phoenix.spawned + 1), lifeMax, dt,
                             colorIntensity)
                   EXCEPT !.first = FALSE, !.ticks = @ + 1]
  /\ UNCHANGED <<TweenVars, endpoint, ace, loader, manager, resizer>>

\* the scene manager shows the scene again
PhoenixRestart ==
  /\ phoenix' = [restart(PhoenixBegin(phoenix, "restart")) EXCEPT !.first = FALSE]
  /\ UNCHANGED <<TweenVars, endpoint, ace, loader, manager, resizer>>

\* 'pointermove' on the view
PointerMove(ex) ==
  /\ phoenix' = [PhoenixBegin(phoenix, "pointermove")
                   EXCEPT !.emitterX = ex, !.first = FALSE]
  /\ UNCHANGED <<TweenVars, endpoint, ace, loader, manager, resizer>>

\* the scene manager calls show() on the scene
PhoenixShow ==
  /\ phoenix' = [phoenixShow(PhoenixBegin(phoenix, "show")) EXCEPT !.first = FALSE]
  /\ UNCHANGED <<TweenVars, endpoint, ace, loader, manager, resizer>>

\* the scene manager calls hide() on the scene
PhoenixHide ==
  /\ phoenix' = [phoenixHide(PhoenixBegin(phoenix, "hide")) EXCEPT !.first = FALSE]
  /\ UNCHANGED <<TweenVars, endpoint, ace, loader, manager, resizer>>

NextPhoenix ==
  \/ \E colorIntensity \in ColorIntensities : PhoenixFirstTick(colorIntensity)
  \/ \E roll \in BOOLEAN, lifeMax \in LifeMaxes, dt \in DeltaMS,
        colorIntensity \in ColorIntensities :
       PhoenixTick(roll, lifeMax, dt, colorIntensity)
  \/ PhoenixRestart
  \/ \E ex \in EmitterXs : PointerMove(ex)

SpecPhoenix == InitPhoenix /\ [][NextPhoenix]_vars

----------------------------------------------------------------------------
(* SpecPhoenixView: the particle pool when the scene manager hides and     *)
(* shows the scene between the frames.                                     *)

NextPhoenixView ==
  \/ \E colorIntensity \in ColorIntensities : PhoenixFirstTick(colorIntensity)
  \/ \E roll \in BOOLEAN, lifeMax \in LifeMaxes, dt \in DeltaMS,
        colorIntensity \in ColorIntensities :
       PhoenixTick(roll, lifeMax, dt, colorIntensity)
  \/ PhoenixShow
  \/ PhoenixHide

SpecPhoenixView == InitPhoenix /\ [][NextPhoenixView]_vars

----------------------------------------------------------------------------
(* SpecPhoenixLive: the particle pool when the ticker goes on calling      *)
(* tick. The first 10 frames fill the pool as in SpecPhoenix; the frames   *)
(* after them last 1 or 2 units and spawn or not, until MaxSpawned         *)
(* particles were spawned in all, and then spawn no more.                  *)

\* at most MaxSpawned particles are ever spawned
MaxSpawned == 12

\* the ticker calls tick, once the pool has been filled
PhoenixLaterTick(roll, dt, colorIntensity) ==
  /\ ~phoenix.first \/ Len(phoenix.particles) = maxSprites
  /\ roll => phoenix.spawned < MaxSpawned
  /\ phoenix' = [phoenixTick(PhoenixBegin(phoenix, "tick"), roll,
                             ParticleTypeOf(phoenix.spawned + 1),
                             LifeOf(phoenix.pattern, phoenix.spawned + 1), dt,
                             colorIntensity)
                   EXCEPT !.first = FALSE, !.tock = ~@]
  /\ UNCHANGED <<TweenVars, endpoint, ace, loader, manager, resizer>>

NextPhoenixLive ==
  \/ \E colorIntensity \in ColorIntensities : PhoenixFirstTick(colorIntensity)
  \/ \E roll \in BOOLEAN, dt \in DeltaMS, colorIntensity \in ColorIntensities :
       PhoenixLaterTick(roll, dt, colorIntensity)

\* the ticker goes on calling tick: a tick can be run in every state and
\* every tick changes the state, so that weak fairness of the ticks,
\* WF_vars(NextPhoenixLive), says that ticks are run again and again
PhoenixFairness == []<><<NextPhoenixLive>>_vars

SpecPhoenixLive == InitPhoenix /\ [][NextPhoenixLive]_vars /\ PhoenixFairness

----------------------------------------------------------------------------
(* AceOfShadowsScene: four stacks of cards and the timer that moves the    *)
(* top card of one stack to another. A card is the stack s it was built    *)
(* in, its rank i there, and its y in the stack that holds it; rotation,   *)
(* alpha and zIndex are left out. Stacks are numbered from 1. The cards    *)
(* detached from their stack are the children the view has after its       *)
(* stacks. A run starts with moves that empty the stacks in turn, each to  *)
(* the next stack, and goes on with resizes and MaxMoves moves of any      *)
(* kind.                                                                   *)

\* at most MaxMoves timer callbacks are run after the first ones
MaxMoves == 2

stackCount == 4
cardsPerStack == 36
overlap == 18

StackIndexes == 1 .. stackCount

\* build() that counts a stack by the index of its last card
buildCountingIndexes ==
  [stacks |-> [s \in StackIndexes |->
                 [k \in 1 .. cardsPerStack |->
                    [s |-> s, i |-> k - 1, y |-> (k - 1) * overlap]]],
   stacksCount |-> [s \in StackIndexes |-> cardsPerStack - 1]]

\* build(): the stacks and their cards
build ==
  [stacks |-> [s \in StackIndexes |->
                 [k \in 1 .. cardsPerStack |->
                    [s |-> s, i |-> k - 1, y |-> (k - 1) * overlap]]],
   stacksCount |-> [s \in StackIndexes |-> cardsPerStack]]

\* new AceOfShadowsScene(app); first says that only first moves were run
\* so far, moves counts the timer callbacks run after them, flightDst[k] is
\* the dstIndex of the move that detached floating[k]
\* clearInterval(id)
clearInterval(A, id) == [A EXCEPT !.intervals = @ \ {id}]

\* startCycling(): window.setInterval(moveTop, 1000) makes one more interval
\* timer; intervals holds the ids of the timers that are active
startCycling(A) ==
  LET id == IF A.intervals = {} THEN 1 ELSE MaxOf(A.intervals) + 1
  IN [A EXCEPT !.intervals = @ \cup {id}, !.topMoveInterval = id]

\* new AceOfShadowsScene(app); topMoveInterval is 0 when undefined
AceScene ==
  startCycling(
    [stacks |-> build.stacks, stacksCount |-> build.stacksCount,
     floating |-> <<>>, flightDst |-> <<>>, activeTweens |-> <<>>,
     visible |-> TRUE, intervals |-> {}, topMoveInterval |-> 0,
     first |-> TRUE, moves |-> 0,
     op |-> "new", src |-> 0, dst |-> 0, srcBefore |-> <<>>,
     countBefore |-> build.stacksCount, emptyBefore |-> FALSE,
     changed |-> FALSE, threw |-> FALSE])

\* what the scene shows and keeps
AceContents(A) == <<A.stacks, A.stacksCount, A.floating, A.activeTweens>>

\* the history of the last handler is cleared when a handler starts
AceBegin(A, op) ==
  [A EXCEPT !.op = op, !.src = 0, !.dst = 0, !.srcBefore = <<>>,
            !.countBefore = A.stacksCount, !.emptyBefore = FALSE,
            !.changed = FALSE, !.threw = FALSE]

\* the indexes of nonEmptyStacks
nonEmptyStacks(A) == {s \in StackIndexes : Len(A.stacks[s]) > 0}

\* the indexes of otherStacks, without the filter
otherStacksUnfiltered(A, srcIndex) == StackIndexes

\* the indexes of otherStacks
otherStacks(A, srcIndex) == {s \in StackIndexes : s # srcIndex}

\* new Tween(top, {...}, 2000, easeInOutQuad, ...): the constructor takes
\* its first argument for the configuration object, whose field to is then
\* undefined unless the sprite has one, and Object.keys(to) throws
constructorThrows(config) == "to" \notin DOMAIN config

\* moveTop() once srcIndex and dstIndex are drawn, without
\* this.stacksCount[dstIndex]++
moveCardUncounted(A, srcIndex, dstIndex) ==
  LET src == A.stacks[srcIndex]
      top == src[Len(src)]
      dstLocalTopY == A.stacksCount[dstIndex] * overlap
      A1 == [A EXCEPT !.src = srcIndex, !.dst = dstIndex, !.srcBefore = src,
                      !.stacks[srcIndex] = SubSeq(src, 1, Len(src) - 1),
                      !.stacksCount[srcIndex] = @ - 1,
                      !.floating = Append(@, top),
                      !.flightDst = Append(@, dstIndex)]
  IN IF constructorThrows(top)
     THEN [A1 EXCEPT !.threw = TRUE]
     ELSE [A1 EXCEPT !.activeTweens =
                        Append(@, [sprite |-> top, dstIndex |-> dstIndex,
                                   toY |-> dstLocalTopY])]

\* moveTop() once srcIndex and dstIndex are drawn
moveCard(A, srcIndex, dstIndex) ==
  LET src == A.stacks[srcIndex]
      top == src[Len(src)]
      dstLocalTopY == A.stacksCount[dstIndex] * overlap
      A1 == [A EXCEPT !.src = srcIndex, !.dst = dstIndex, !.srcBefore = src,
                      !.stacks[srcIndex] = SubSeq(src, 1, Len(src) - 1),
                      !.stacksCount[srcIndex] = @ - 1,
                      !.stacksCount[dstIndex] = @ + 1,
                      !.floating = Append(@, top),
                      !.flightDst = Append(@, dstIndex)]
  IN IF constructorThrows(top)
     THEN [A1 EXCEPT !.threw = TRUE]
     ELSE [A1 EXCEPT !.activeTweens =
                        Append(@, [sprite |-> top, dstIndex |-> dstIndex,
                                   toY |-> dstLocalTopY])]

\* moveTop(): pick says which of the stacks it may draw are drawn
moveTop(A, pick) ==
  LET A0 == AceBegin(A, "moveTop")
      A1 == IF nonEmptyStacks(A0) = {}
            THEN [A0 EXCEPT !.emptyBefore = TRUE]
            ELSE moveCard(A0, pick.src, pick.dst)
  IN [A1 EXCEPT !.changed = AceContents(A1) # AceContents(A)]

\* the draws moveTop can make
Picks(A) ==
  IF nonEmptyStacks(A) = {} THEN {[src |-> 0, dst |-> 0]}
  ELSE {pick \in [src : nonEmptyStacks(A), dst : StackIndexes] :
          pick.dst \in otherStacks(A, pick.src)}

\* handleResize() without its clearInterval
handleResizeKeepingInterval(A) ==
  startCycling(
    [AceBegin(A, "resize") EXCEPT
       !.stacks = build.stacks, !.stacksCount = build.stacksCount,
       !.floating = <<>>, !.flightDst = <<>>, !.activeTweens = <<>>,
       !.topMoveInterval = 0])

\* handleResize(): the build() it ends by calls startCycling()
handleResize(A) ==
  startCycling(
    [clearInterval(AceBegin(A, "resize"), A.topMoveInterval) EXCEPT
       !.stacks = build.stacks, !.stacksCount = build.stacksCount,
       !.floating = <<>>, !.flightDst = <<>>, !.activeTweens = <<>>,
       !.topMoveInterval = 0])

\* show(); the layout() it ends by places the stacks on the screen
aceShow(A) == [A EXCEPT !.visible = TRUE]

\* hide(); the function it hands to removeEventListener was never added
aceHide(A) == [A EXCEPT !.visible = FALSE]

InitAce ==
  /\ EngineIdle
  /\ endpoint = Idle
  /\ phoenix = Idle
  /\ ace = AceScene
  /\ loader = Idle
  /\ manager = Idle
  /\ resizer = Idle

\* the timer calls moveTop, which draws the first stack that has cards and
\* the stack after it
AceFirstMove ==
  /\ ace.intervals # {}
  /\ ace.first
  /\ nonEmptyStacks(ace) # {}
  /\ LET s == CHOOSE n \in nonEmptyStacks(ace) :
                 \A m \in nonEmptyStacks(ace) : n <= m
     IN ace' = moveTop(ace, [src |-> s, dst |-> (s % stackCount) + 1])
  /\ UNCHANGED <<TweenVars, endpoint, phoenix, loader, manager, resizer>>

\* the timer calls moveTop
MoveTop(pick) ==
  /\ ace.intervals # {}
  /\ ace.moves < MaxMoves
  /\ pick \in Picks(ace)
  /\ ace' = [moveTop(ace, pick) EXCEPT !.first = FALSE, !.moves = @ + 1]
  /\ UNCHANGED <<TweenVars, endpoint, phoenix, loader, manager, resizer>>

\* 'resize' on the window
Resize ==
  /\ ace' = [handleResize(ace) EXCEPT !.first = FALSE]
  /\ UNCHANGED <<TweenVars, endpoint, phoenix, loader, manager, resizer>>

\* the scene manager calls show() on the scene
AceShow ==
  /\ ace' = [aceShow(AceBegin(ace, "show")) EXCEPT !.first = FALSE]
  /\ UNCHANGED <<TweenVars, endpoint, phoenix, loader, manager, resizer>>

\* the scene manager calls hide() on the scene
AceHide ==
  /\ ace' = [aceHide(AceBegin(ace, "hide")) EXCEPT !.first = FALSE]
  /\ UNCHANGED <<TweenVars, endpoint, phoenix, loader, manager, resizer>>

NextAce ==
  \/ AceFirstMove
  \/ \E pick \in [src : 0 .. stackCount, dst : 0 .. stackCount] : MoveTop(pick)
  \/ Resize
  \/ AceShow
  \/ AceHide

SpecAce == InitAce /\ [][NextAce]_vars

----------------------------------------------------------------------------
(* ImageLoader: the texture cache and the images being loaded. A texture   *)
(* is the number of the load that created it. A load goes on after its     *)
(* timeout has rejected the promise: nothing cancels the image.            *)

\* at most MaxLoads images are ever requested
MaxLoads == 2

Urls == {"a.png", "b.png"}

\* the class with no texture cached; loads[i] is the i-th image requested:
\* its url, the cache option of the call, whether the image is still
\* loading, and how the promise of the call ended, if it did
ImageLoader ==
  [textureCache |-> <<>>, loads |-> <<>>,
   op |-> "new", url |-> "", cache |-> TRUE, load |-> 0,
   cachedBefore |-> <<>>, started |-> FALSE, returned |-> 0]

\* the history of the last handler is cleared when a handler starts
LoaderBegin(L, op, url, cache, load) ==
  [L EXCEPT !.op = op, !.url = url, !.cache = cache, !.load = load,
            !.cachedBefore = L.textureCache, !.started = FALSE,
            !.returned = 0]

\* map.set(key, value)
MapSet(map, key, value) ==
  [k \in DOMAIN map \cup {key} |-> IF k = key THEN value ELSE map[k]]

\* map.delete(key)
MapDelete(map, key) == [k \in DOMAIN map \ {key} |-> map[k]]

\* loadTextureInternal(url, crossOrigin, timeout) up to img.src = url
loadTextureInternal(L, url, cache) ==
  [L EXCEPT !.started = TRUE,
            !.loads = Append(@, [url |-> url, cache |-> cache,
                                 loading |-> TRUE, promise |-> "pending",
                                 texture |-> 0])]

\* loadTexture(url, {cache}) up to its first await or its return
loadTexture(L, url, cache) ==
  IF cache /\ url \in DOMAIN L.textureCache
  THEN [L EXCEPT !.returned = L.textureCache[url]]
  ELSE loadTextureInternal(L, url, cache)

\* img.onload of load i
onload(L, i) ==
  LET texture == i
      settle == L.loads[i].promise = "pending"
  IN [L EXCEPT !.textureCache = MapSet(@, L.loads[i].url, texture),
               !.loads[i].loading = FALSE,
               !.loads[i].promise = IF settle THEN "resolved" ELSE @,
               !.loads[i].texture = IF settle THEN texture ELSE @,
               !.returned = IF settle THEN texture ELSE 0]

\* img.onerror of load i
onerror(L, i) ==
  [L EXCEPT !.loads[i].loading = FALSE,
            !.loads[i].promise = IF @ = "pending" THEN "rejected" ELSE @]

\* the timeout callback of load i
onTimeout(L, i) == [L EXCEPT !.loads[i].promise = "rejected"]

\* clearCache()
clearCache(L) == [L EXCEPT !.textureCache = <<>>]

\* removeFromCache(url)
removeFromCache(L, url) == [L EXCEPT !.textureCache = MapDelete(@, url)]

\* getCacheSize()
getCacheSize(L) == Cardinality(DOMAIN L.textureCache)

InitLoader ==
  /\ EngineIdle
  /\ endpoint = Idle
  /\ phoenix = Idle
  /\ ace = Idle
  /\ loader = ImageLoader
  /\ manager = Idle
  /\ resizer = Idle

LoaderOthers == <<TweenVars, endpoint, phoenix, ace, manager, resizer>>

\* ImageLoader.loadTexture(url, {cache})
LoadTexture(url, cache) ==
  /\ (cache /\ url \in DOMAIN loader.textureCache) \/ Len(loader.loads) < MaxLoads
  /\ loader' = loadTexture(LoaderBegin(loader, "loadTexture", url, cache, 0),
                           url, cache)
  /\ UNCHANGED LoaderOthers

\* the image of load i arrives
ImageLoaded(i) ==
  /\ i \in 1 .. Len(loader.loads)
  /\ loader.loads[i].loading
  /\ loader' = onload(LoaderBegin(loader, "onload", loader.loads[i].url,
                                  loader.loads[i].cache, i), i)
  /\ UNCHANGED LoaderOthers

\* the image of load i fails
ImageFailed(i) ==
  /\ i \in 1 .. Len(loader.loads)
  /\ loader.loads[i].loading
  /\ loader' = onerror(LoaderBegin(loader, "onerror", loader.loads[i].url,
                                   loader.loads[i].cache, i), i)
  /\ UNCHANGED LoaderOthers

\* the timeout of load i expires before the image has arrived or failed
ImageTimeout(i) ==
  /\ i \in 1 .. Len(loader.loads)
  /\ loader.loads[i].loading
  /\ loader.loads[i].promise = "pending"
  /\ loader' = onTimeout(LoaderBegin(loader, "timeout", loader.loads[i].url,
                                     loader.loads[i].cache, i), i)
  /\ UNCHANGED LoaderOthers

\* ImageLoader.clearCache()
ClearCache ==
  /\ loader' = clearCache(LoaderBegin(loader, "clearCache", "", TRUE, 0))
  /\ UNCHANGED LoaderOthers

\* ImageLoader.removeFromCache(url)
RemoveFromCache(url) ==
  /\ loader' = removeFromCache(LoaderBegin(loader, "removeFromCache", url, TRUE, 0),
                               url)
  /\ UNCHANGED LoaderOthers

NextLoader ==
  \/ \E url \in Urls, cache \in BOOLEAN : LoadTexture(url, cache)
  \/ \E i \in 1 .. MaxLoads : ImageLoaded(i)
  \/ \E i \in 1 .. MaxLoads : ImageFailed(i)
  \/ \E i \in 1 .. MaxLoads : ImageTimeout(i)
  \/ ClearCache
  \/ \E url \in Urls : RemoveFromCache(url)

SpecLoader == InitLoader /\ [][NextLoader]_vars

----------------------------------------------------------------------------
(* SceneManager: the three scenes, of which the visibility of the view is  *)
(* kept, the current scene and the history of the scenes shown. A scene is *)
(* named by its key.                                                       *)

maxHistorySize == 10

SceneKeys == {"ace", "magic", "phoenix"}

\* scene.hide() of the scene of key
sceneHide(M, key) == [M EXCEPT !.visible[key] = FALSE]

\* scene.show() of the scene of key
sceneShow(M, key) == [M EXCEPT !.visible[key] = TRUE]

\* the loop of initializeScenes() over the scenes not yet hidden
RECURSIVE hideEach(_, _)
hideEach(M, keys) ==
  IF keys = {} THEN M
  ELSE LET key == CHOOSE k \in keys : TRUE
       IN hideEach(sceneHide(M, key), keys \ {key})

\* new SceneManager(app): the views of the new scenes are visible until
\* initializeScenes() hides them; op, key, added and returned tell the last
\* call, its arguments and what it returned, sizeBefore the length of the
\* history when it began
SceneManager ==
  hideEach([visible |-> [k \in SceneKeys |-> TRUE],
            currentScene |-> "undefined", sceneHistory |-> <<>>,
            op |-> "new", key |-> "undefined", added |-> FALSE,
            returned |-> FALSE, sizeBefore |-> 0],
           SceneKeys)

\* addToHistory(key) that drops the newest entry
addToHistoryDroppingNewest(M, key) ==
  LET pushed == Append(M.sceneHistory, key)
  IN [M EXCEPT !.sceneHistory =
                  IF Len(pushed) > maxHistorySize
                  THEN SubSeq(pushed, 1, Len(pushed) - 1) ELSE pushed]

\* addToHistory(key)
addToHistory(M, key) ==
  LET pushed == Append(M.sceneHistory, key)
  IN [M EXCEPT !.sceneHistory =
                  IF Len(pushed) > maxHistorySize THEN Tail(pushed) ELSE pushed]

\* show(key, addToHistory) that leaves the current scene as it is
showWithoutHide(M, key, add) ==
  LET M2 == sceneShow([M EXCEPT !.currentScene = key], key)
  IN IF add THEN addToHistory(M2, key) ELSE M2

\* show(key, addToHistory); restart() and layout() touch nothing kept here
show(M, key, add) ==
  LET M1 == IF M.currentScene # "undefined"
            THEN sceneHide(M, M.currentScene) ELSE M
      M2 == sceneShow([M1 EXCEPT !.currentScene = key], key)
  IN IF add THEN addToHistory(M2, key) ELSE M2

\* getCurrentSceneKey()
getCurrentSceneKey(M) ==
  IF \E k \in SceneKeys : k = M.currentScene
  THEN CHOOSE k \in SceneKeys : k = M.currentScene
  ELSE "null"

\* goBack() that leaves the history as it is
goBackWithoutPop(M) ==
  IF Len(M.sceneHistory) < 2 THEN [M EXCEPT !.returned = FALSE]
  ELSE LET M1 == M
           previousScene == M1.sceneHistory[Len(M1.sceneHistory)]
       IN [show(M1, previousScene, FALSE) EXCEPT !.returned = TRUE]

\* goBack()
goBack(M) ==
  IF Len(M.sceneHistory) < 2 THEN [M EXCEPT !.returned = FALSE]
  ELSE LET M1 == [M EXCEPT !.sceneHistory = SubSeq(@, 1, Len(@) - 1)]
           previousScene == M1.sceneHistory[Len(M1.sceneHistory)]
       IN [show(M1, previousScene, FALSE) EXCEPT !.returned = TRUE]

\* clearHistory()
clearHistory(M) == [M EXCEPT !.sceneHistory = <<>>]

\* the record of a call that starts
ManagerBegin(M, op, key, add) ==
  [M EXCEPT !.op = op, !.key = key, !.added = add, !.returned = FALSE,
            !.sizeBefore = Len(M.sceneHistory)]

InitScenes ==
  /\ EngineIdle
  /\ endpoint = Idle
  /\ phoenix = Idle
  /\ ace = Idle
  /\ loader = Idle
  /\ manager = SceneManager
  /\ resizer = Idle

ManagerOthers == <<TweenVars, endpoint, phoenix, ace, loader, resizer>>

\* sceneManager.show(key, addToHistory)
Show(key, add) ==
  /\ manager' = show(ManagerBegin(manager, "show", key, add), key, add)
  /\ UNCHANGED ManagerOthers

\* sceneManager.goBack()
GoBack ==
  /\ manager' = goBack(ManagerBegin(manager, "goBack", "undefined", FALSE))
  /\ UNCHANGED ManagerOthers

\* sceneManager.clearHistory()
ClearHistory ==
  /\ manager' = clearHistory(ManagerBegin(manager, "clearHistory",
                                          "undefined", FALSE))
  /\ UNCHANGED ManagerOthers

NextScenes ==
  \/ \E key \in SceneKeys, add \in BOOLEAN : Show(key, add)
  \/ GoBack
  \/ ClearHistory

SpecScenes == InitScenes /\ [][NextScenes]_vars

----------------------------------------------------------------------------
(* ResizeManager: the handler set, the debounce timer and the window's     *)
(* timeouts after setupGlobalResize() with debouncing on. Times are in ms. *)
(* A timeout runs at the time it is due, the earliest made first; an event *)
(* that arrives at that same time may come before it or after it. The      *)
(* handlers are opaque; a trigger records which ones it ran.               *)
(* History: lastResize the time of the last resize event, lastCall which   *)
(* listener made the last call of debouncedResize, called whether there    *)
(* was such a call since the last trigger, ran and ranAt the handlers the  *)
(* last trigger ran and its time, triggers the number of triggers, removed *)
(* the handlers removed and not added again, events the number of events.  *)

\* at most MaxEvents resize and orientationchange events arrive
MaxEvents == 3

\* the clock stops at MaxResizeTime
MaxResizeTime == 400

DEFAULT_DEBOUNCE_DELAY == 100

\* the handler functions registered
Handlers == {"h1", "h2"}

\* the clock advances by one of these
TimeSteps == {50, 100}

\* setupGlobalResize({handleOrientation}) on a new ResizeManager
ResizeManager(handleOrientation) ==
  [time |-> 0, handleOrientation |-> handleOrientation,
   resizeHandlers |-> <<>>, debounceTimer |-> 0, timers |-> {},
   nextTimer |-> 1, removers |-> {},
   op |-> "init", lastResize |-> -1, lastCall |-> "none", called |-> FALSE,
   ran |-> <<>>, ranAt |-> -1, triggers |-> 0, removed |-> {}, events |-> 0]

\* window.setTimeout(callback, delay): the timer is given the next id
setTimeout(R, callback, delay) ==
  [R EXCEPT !.timers = @ \cup {[id |-> R.nextTimer, due |-> R.time + delay,
                                callback |-> callback]},
            !.nextTimer = @ + 1]

\* clearTimeout(id)
clearTimeout(R, id) == [R EXCEPT !.timers = {t \in @ : t.id # id}]

\* addResizeHandler(handler); the function it returns is kept in removers
addResizeHandler(R, handler) ==
  [R EXCEPT !.resizeHandlers =
              IF \E i \in 1 .. Len(@) : @[i] = handler THEN @
              ELSE Append(@, handler),
            !.removers = @ \cup {handler},
            !.removed = @ \ {handler}]

\* the function addResizeHandler(handler) returned
removeResizeHandler(R, handler) ==
  [R EXCEPT !.resizeHandlers = SelectSeq(@, LAMBDA g : g # handler),
            !.removed = @ \cup {handler}]

\* triggerResize(): every handler of the set runs, in insertion order
triggerResize(R) ==
  [R EXCEPT !.ran = R.resizeHandlers, !.ranAt = R.time, !.triggers = @ + 1,
            !.called = FALSE]

\* debouncedResize() without its clearTimeout
debouncedResizeKeepingTimer(R, listener) ==
  LET set == setTimeout(R, "triggerResize", DEFAULT_DEBOUNCE_DELAY)
  IN [set EXCEPT !.debounceTimer = R.nextTimer,
                 !.lastCall = listener, !.called = TRUE]

\* debouncedResize(), called by the listener given
debouncedResize(R, listener) ==
  LET cleared == IF R.debounceTimer # 0
                 THEN clearTimeout(R, R.debounceTimer) ELSE R
      set == setTimeout(cleared, "triggerResize", DEFAULT_DEBOUNCE_DELAY)
  IN [set EXCEPT !.debounceTimer = cleared.nextTimer,
                 !.lastCall = listener, !.called = TRUE]

InitResize ==
  /\ EngineIdle
  /\ endpoint = Idle
  /\ phoenix = Idle
  /\ ace = Idle
  /\ loader = Idle
  /\ manager = Idle
  /\ resizer \in {ResizeManager(handleOrientation) :
                    handleOrientation \in BOOLEAN}

ResizerOthers == <<TweenVars, endpoint, phoenix, ace, loader, manager>>

\* the timeouts whose time has come
DueTimers == {t \in resizer.timers : t.due <= resizer.time}

\* a resize event of the window
WindowResize ==
  /\ resizer.events < MaxEvents
  /\ resizer' = debouncedResize([resizer EXCEPT !.op = "resize",
                                                !.events = @ + 1,
                                                !.lastResize = resizer.time],
                                "resize")
  /\ UNCHANGED ResizerOthers

\* an orientationchange event of the window
OrientationChange ==
  /\ resizer.handleOrientation
  /\ resizer.events < MaxEvents
  /\ resizer' = setTimeout([resizer EXCEPT !.op = "orientationchange",
                                           !.events = @ + 1],
                           "resizeHandler", 100)
  /\ UNCHANGED ResizerOthers

\* the timeout due that was made first runs its callback
Timeout ==
  /\ DueTimers # {}
  /\ LET t == CHOOSE d \in DueTimers : \A e \in DueTimers : d.id <= e.id
         R == [resizer EXCEPT !.op = t.callback,
                              !.timers = @ \ {t}]
     IN resizer' = IF t.callback = "triggerResize" THEN triggerResize(R)
                   ELSE debouncedResize(R, "orientationchange")
  /\ UNCHANGED ResizerOthers

\* resizeManager.addResizeHandler(handler)
AddResizeHandler(handler) ==
  /\ resizer' = addResizeHandler([resizer EXCEPT !.op = "add"], handler)
  /\ UNCHANGED ResizerOthers

\* a call of the function addResizeHandler(handler) returned
RemoveResizeHandler(handler) ==
  /\ handler \in resizer.removers
  /\ resizer' = removeResizeHandler([resizer EXCEPT !.op = "remove"], handler)
  /\ UNCHANGED ResizerOthers

\* time passes, up to the time the next timeout is due
ResizeTimePasses(d) ==
  /\ resizer.time + d <= MaxResizeTime
  /\ \A t \in resizer.timers : resizer.time + d <= t.due
  /\ resizer' = [resizer EXCEPT !.op = "time", !.time = @ + d]
  /\ UNCHANGED ResizerOthers

NextResize ==
  \/ WindowResize
  \/ OrientationChange
  \/ Timeout
  \/ \E handler \in Handlers : AddResizeHandler(handler)
  \/ \E handler \in Handlers : RemoveResizeHandler(handler)
  \/ \E d \in TimeSteps : ResizeTimePasses(d)

SpecResize == InitResize /\ [][NextResize]_vars

----------------------------------------------------------------------------
(* Properties                                                              *)

\* tween id is in Tween.tweens in the current state
Active(id) == InActive(Engine, id)

\* the last handler was a frame callback
AfterFrame == h.op = "frame"

\* 0 < p < 1
StrictlyInside(p) == NLess(Zero, p) /\ NLess(p, One)

\* C1 (as claimed; violated by the code): in every update of a tween of
\* positive duration, the progress handed to the easing function is a number
\* in [0,1].
C1_ProgressInUnitInterval ==
  \A pr \in h.progs :
    tw[pr[1]].duration > 0 =>
      IsFinite(pr[2]) /\ NGe(pr[2], Zero) /\ NGe(One, pr[2])

\* C2 (as claimed; violated by the code): when a tween in flight has just
\* been updated at time T and is retargeted at T with resetTime = false, an
\* update at T after the retarget assigns the value the update before it
\* assigned.
C2_RetargetKeepsValue ==
  [][(/\ h'.op = "updateTarget" /\ ~h'.reset
      /\ AfterFrame /\ h'.id \in h.wrote
      /\ ~tw[h'.id].finished
      /\ StrictlyInside(Progress(tw[h'.id], now)))
     => ValueAt(tw'[h'.id], now') = x[h'.id]]_vars

\* C3: a resume at time R of a tween paused at P, with no other operation on
\* that tween in between, leaves it at the progress it had at P right before
\* the pause, and an update at R assigns the value an update at P would have
\* assigned.
C3_ResumeKeepsProgress ==
  [][(h'.op = "resume" /\ h'.resumedClean) =>
       /\ Progress(tw'[h'.id], now') = h.progAtPause[h'.id]
       /\ ValueAt(tw'[h'.id], now') =
            Interpolate(tw[h'.id],
                        Ease(tw[h'.id].easing, h.progAtPause[h'.id]))]_vars

\* C3 witness: a tween paused in flight was resumed at a later time
C3_Witness ==
  /\ h.op = "resume" /\ h.resumedClean
  /\ now > tw[h.id].pauseTime
  /\ StrictlyInside(h.progAtPause[h.id])
  /\ ~tw[h.id].paused

\* C4 (as claimed; violated by the code): when a handler has constructed a
\* tween, also from a callback inside a tick, then once the handler has
\* returned the tween is in the active set, the loop is marked running and a
\* frame is requested (unless the tween was stopped meanwhile).
C4_CreatedIsActive ==
  [][\A id \in (1 .. Len(tw')) \ (1 .. Len(tw)) :
       ~tw'[id].finished =>
         /\ \E k \in 1 .. Len(tweens') : tweens'[k] = id
         /\ isRunning'
         /\ frames' > 0]_vars

\* C5 (as claimed; violated by the code): once the handler in which stop()
\* was called on a tween has returned, the tween is finished and out of the
\* active set, and its completion callback is not invoked after the stop.
C5_StopRemoves ==
  \A id \in h.stopped :
    tw[id].finished /\ ~Active(id) /\ id \notin h.lateComplete

\* C6 (as claimed; violated by the code): after a tick that cancelled a
\* tween on its liveness check (and in which no assignment threw), update()
\* was called on every other unfinished tween that was in the active set
\* when the tick began, and each of them is still in the active set unless
\* the tick finished it.
C6_OnlyCancelledDropped ==
  (AfterFrame /\ h.cancelledNow # {} /\ h.assignThrew = {}) =>
    \A id \in h.start \ h.cancelledNow :
      id \in h.visited /\ (Active(id) \/ tw[id].finished)

\* C7 (as claimed; violated by the code): after a tick in which assigning a
\* target's field threw, the offending tween is out of the active set,
\* update() was called on every other tween that was in the active set, and
\* a frame is requested while tweens remain.
C7_AssignmentThrowIsolated ==
  (AfterFrame /\ h.assignThrew # {}) =>
    /\ \A id \in h.assignThrew : ~Active(id)
    /\ \A id \in h.start \ h.assignThrew : id \in h.visited
    /\ (Len(tweens) > 0 => frames > 0)

\* C8: a tween cancelled by its liveness check is finished, its completion
\* callback is never invoked, and no update assigns its target's field in
\* the cancelling tick or later.
C8_CancelIsFinal ==
  \A id \in h.cancelled :
    /\ tw[id].finished
    /\ id \notin h.completed
    /\ id \notin h.lateWrite
    /\ (id \in h.cancelledNow => id \notin h.wrote)

\* C8 witness: a frame ran after the frame that cancelled a tween, at a time
\* at which the tween would have completed
C8_Witness ==
  /\ AfterFrame
  /\ \E id \in h.cancelled \ h.cancelledNow :
       /\ NGe(Progress(tw[id], now), One)
       /\ \E other \in h.wrote : other # id

\* the engine's own state, without the history
Program(E) ==
  <<E.tweens, E.isRunning, E.animationId, E.frames, E.tw, E.x, E.destroyed>>

\* the callbacks cb, with those that throw doing nothing instead
Quiet(cb) == [id \in DOMAIN cb |-> IF cb[id] = "throw" THEN "noop" ELSE cb[id]]

\* the state in which a frame callback starts
FrameStart(cb) ==
  [Begin(Engine, "frame", 0, FALSE)
     EXCEPT !.frames = @ - 1,
            !.h.cb = cb,
            !.animationId = IF @ = "pending" THEN "stale" ELSE @]

\* C9: a frame in which completion callbacks throw leaves the engine in the
\* state it would be in had those callbacks returned normally (the other
\* tweens are updated and the loop goes on as if nothing was thrown), and
\* the tweens whose callbacks threw are finished. In a frame in which, beside
\* that, no assignment throws, no liveness check fails and no callback stops
\* a tween, the tweens whose callbacks threw have left the active set,
\* update() was called on every tween that was active, and the loop is
\* running with a frame requested while tweens remain.
C9_CallbackThrowIsolated ==
  [][(h'.op = "frame" /\ h'.cbThrew # {}) =>
       /\ Program(Engine') = Program(animate(FrameStart(Quiet(h'.cb)), now, Quiet(h'.cb)))
       /\ \A id \in h'.cbThrew : tw'[id].finished
       /\ (/\ h'.assignThrew = {} /\ h'.cancelledNow = {}
           /\ \A i \in DOMAIN h'.cb : h'.cb[i] # "stopPeer")
          => /\ \A id \in h'.cbThrew : \A k \in 1 .. Len(tweens') : tweens'[k] # id
             /\ \A id \in h'.start : id \in h'.visited
             /\ (Len(tweens') > 0 => (isRunning' /\ frames' > 0))]_vars

\* C9 witness: a completion callback threw, a tween visited after it in the
\* same tick was updated and stays active, and the next frame is requested
C9_Witness ==
  /\ AfterFrame
  /\ \E id \in h.cbThrew :
       /\ tw[id].finished /\ ~Active(id)
       /\ \E other \in h.wrote : other > id /\ Active(other)
  /\ frames > 0

\* C10 (as claimed; violated by the code): a tick that updates a tween of
\* duration <= 0 completes it: the field holds its destination, the
\* completion callback has run, and the tween has left the active set.
C10_NonPositiveDurationCompletes ==
  AfterFrame =>
    \A id \in h.start :
      (tw[id].duration <= 0 /\ ~tw[id].paused) =>
        /\ tw[id].finished
        /\ x[id] = tw[id].to
        /\ id \in h.completed
        /\ ~Active(id)

\* C11 (as claimed; violated by the code): a tween whose update reached
\* progress >= 1 is finished and out of the active set once the tick has
\* returned, its completion callback is not invoked a second time and no
\* later update writes its target's field.
C11_CompletedIsTerminal ==
  \A id \in h.terminal :
    /\ tw[id].finished
    /\ ~Active(id)
    /\ id \notin h.recompleted
    /\ id \notin h.wroteAfterTerminal

\* C12 (as claimed; violated by the code): for every easing function, an
\* update at progress 0 assigns the start value captured at creation or at
\* the latest retarget, and an update at progress 1 assigns exactly the
\* destination value.
C12_EndpointsExact ==
  endpoint # Idle =>
    /\ (endpoint.progress = Zero => endpoint.value = endpoint.from)
    /\ (endpoint.progress = One => endpoint.value = endpoint.to)

\* C13 (as claimed; violated by the code): while the active set is not
\* empty the loop is marked running and a frame is requested; a tick that
\* leaves the set empty requests no frame and marks the loop stopped; a
\* creation leaves the loop running with a frame requested.
C13_LoopFollowsActiveSet ==
  /\ Len(tweens) > 0 => (isRunning /\ frames > 0)
  /\ (AfterFrame /\ Len(tweens) = 0) => (~isRunning /\ frames = 0)
  /\ h.op = "create" => (isRunning /\ frames > 0)

\* C36 (as claimed; violated by the code): an update of a delayed tween at
\* an elapsed time below the delay leaves the field at its start value, the
\* tween finishes at the elapsed time config.duration + delay and not
\* before, and it finishes with the field at its destination value.
C36_DelayedTween ==
  (endpoint # Idle /\ "delay" \in DOMAIN endpoint /\ endpoint.elapsed >= 0) =>
    /\ endpoint.elapsed < endpoint.delay => endpoint.value = endpoint.start
    /\ endpoint.finished <=> endpoint.elapsed >= endpoint.duration
    /\ endpoint.finished => endpoint.value = endpoint.to

\* C21: every easing function of the library maps 0 to 0 and 1 to 1, and
\* easeInOutQuad maps 0.5 to 0.5
C21_EasingBoundaries ==
  endpoint # Idle =>
    /\ endpoint.progress = Zero => endpoint.eased = Zero
    /\ endpoint.progress = One => endpoint.eased = One
    /\ (endpoint.easing = "easeInOutQuad" /\ endpoint.progress = Half)
         => endpoint.eased = Half

\* an update half-way through an easeInOutQuad tween eased 0.5 to 0.5
C21_Witness ==
  /\ endpoint # Idle
  /\ endpoint.easing = "easeInOutQuad"
  /\ endpoint.progress = Half
  /\ endpoint.eased = Half

\* C22 (as claimed; violated by the code): a retarget with resetTime = false
\* changes only the destination and the captured start value of the field it
\* names; a retarget with resetTime = true at time T makes T the instant
\* from which elapsed time is counted, and when the tween is paused at T and
\* resumed at R the elapsed time at R is counted from T, with or without
\* the time spent paused (it is between 0 and R - T).
C22_RetargetFrame ==
  [][/\ (h'.op = "updateTarget" /\ ~h'.reset) =>
          tw' = [tw EXCEPT ![h'.id].to = tw'[h'.id].to,
                           ![h'.id].from = tw'[h'.id].from]
     /\ (h'.op = "updateTarget" /\ h'.reset /\ ~tw[h'.id].paused) =>
          tw'[h'.id].startTime = now'
     /\ h'.op = "resume" =>
          \A pr \in h.pausedReset :
            pr[1] = h'.id => tw'[h'.id].startTime \in pr[2] .. now']_vars

\* C23 (as claimed; violated by the code): after stopAll(), for any number
\* of active tweens, the active set is empty, every tween that was active is
\* finished, and the call invoked no completion callback.
C23_StopAllFinishesAll ==
  [][h'.op = "stopAll" =>
       /\ Len(tweens') = 0
       /\ \A id \in h'.start : tw'[id].finished
       /\ h'.completed = h.completed]_vars

\* C25 (as claimed; violated by the code): getProgress() of a tween of
\* positive duration returns a number in [0,1] in every state of the tween
\* (running, paused, finished, after a retarget with resetTime, after a
\* resume), and 1 once the tween is finished.
C25_GetProgressInUnitInterval ==
  \A id \in 1 .. Len(tw) :
    tw[id].duration > 0 =>
      LET p == getProgress(tw[id], now)
      IN /\ IsFinite(p) /\ NGe(p, Zero) /\ NGe(One, p)
         /\ tw[id].finished => p = One

Due(id) ==
  /\ id <= Len(tw)
  /\ tw[id].duration > 0
  /\ ~tw[id].paused
  /\ id \notin h.stopped
  /\ NGe(Progress(tw[id], now), One)

\* tween id is finished: an update has completed it and invoked its
\* completion callback if it has one, or it was stopped
Done(id) == id <= Len(tw) /\ (tw[id].finished \/ id \in h.stopped)

\* C28 (as claimed; violated by the code): when frames go on being run,
\* every tween of positive duration that is not paused and not stopped is
\* finished in the end, and once no unfinished tween remains the active set
\* becomes empty.
C28_EventuallyCompletes ==
  /\ \A id \in 1 .. MaxTweens : Due(id) ~> Done(id)
  /\ (\A id \in 1 .. Len(tw) : tw[id].finished) ~> (Len(tweens) = 0)

\* C20: a frame at elapsed time e, 0 <= e <= D, of a linear tween of
\* duration D > 0 sets the field to from + (to - from) * e / D, and at
\* e = D the field holds the destination and the tween has left the
\* active set
C20_LinearValue ==
  AfterFrame =>
    \A id \in h.wrote :
      (tw[id].easing = "linear" /\ tw[id].duration > 0) =>
        LET e == now - tw[id].startTime
            D == tw[id].duration
        IN /\ (0 <= e /\ e <= D) =>
                x[id] = NAdd(tw[id].from,
                             NDiv(NMul(NSub(tw[id].to, tw[id].from), I(e)),
                                  I(D)))
           /\ e = D => (x[id] = tw[id].to /\ ~Active(id))

\* a frame half-way through a linear tween from 2 to 4 that was never
\* retargeted set the field to 3
C20_Witness ==
  /\ AfterFrame
  /\ retargets = 0
  /\ \E id \in h.wrote :
        /\ tw[id].easing = "linear" /\ tw[id].duration = 2
        /\ now - tw[id].startTime = 1
        /\ x[id] = I(3) /\ Active(id)

----------------------------------------------------------------------------
(* PhoenixFlameScene *)

\* the ids of the particles in the pool
PoolIds == {phoenix.particles[i].id : i \in 1 .. Len(phoenix.particles)}

\* C14: after any sequence of ticks, spawn attempts, emitter moves and
\* restarts the pool holds at most 10 particles (and the view as many
\* sprites), and a spawn attempted while the pool holds 10 changes neither
\* the pool nor the view
C14_PoolCapped ==
  phoenix # Idle =>
    /\ Len(phoenix.particles) <= maxSprites
    /\ Len(phoenix.children) <= maxSprites
    /\ (phoenix.op = "tick" /\ phoenix.attempted
          /\ phoenix.sizeBefore >= maxSprites) => ~phoenix.spawnChanged

\* a tick attempted a spawn while the pool held 10 particles
C14_Witness ==
  /\ phoenix # Idle
  /\ phoenix.op = "tick" /\ phoenix.attempted
  /\ phoenix.sizeBefore = maxSprites

\* a particle is in the pool with its sprite in the view and not released,
\* or out of both and released once; a tick removes the particles whose age
\* has reached their lifetime in it, and keeps no such particle
ReleasedOnce ==
  /\ Cardinality(PoolIds) = Len(phoenix.particles)
  /\ phoenix.children = [i \in 1 .. Len(phoenix.particles) |->
                           phoenix.particles[i].id]
  /\ \A id \in 1 .. phoenix.spawned :
        phoenix.released[id] = (IF id \in PoolIds THEN 0 ELSE 1)
  /\ \A r \in phoenix.removedNow :
        r.life >= r.lifeMax /\ r.before < r.lifeMax
  /\ phoenix.op = "tick" =>
        \A i \in 1 .. Len(phoenix.particles) :
          phoenix.particles[i].life < phoenix.particles[i].lifeMax

\* C15 as stated: a particle is removed from the pool and its sprite
\* released exactly once, in the first tick in which its age reaches its
\* lifetime and not before, and never re-enters the pool
C15_ReleasedAtLifetimeOnly ==
  phoenix # Idle => (ReleasedOnce /\ phoenix.clearedNow = {})

\* C15, amended: a particle is removed from the pool and its sprite released
\* exactly once, in the first tick in which its age reaches its lifetime or
\* before that by a restart of the scene, and never re-enters the pool
C15_ReleasedOnce ==
  phoenix # Idle =>
    /\ ReleasedOnce
    /\ phoenix.op # "restart" => phoenix.clearedNow = {}
    /\ \A id \in phoenix.clearedNow :
          id \notin PoolIds /\ phoenix.released[id] = 1

\* a restart released particles of a pool from which a tick had retired
\* another
C15_Witness ==
  /\ phoenix # Idle
  /\ phoenix.op = "restart" /\ phoenix.clearedNow # {}
  /\ \E id \in 1 .. phoenix.spawned :
        id \notin phoenix.clearedNow /\ phoenix.released[id] = 1

\* C16: between ticks every particle of the pool has 0 <= age <= lifetime,
\* and the age fraction t of every particle is in [0, 1] in every tick
C16_AgeWithinLifetime ==
  phoenix # Idle =>
    /\ \A i \in 1 .. Len(phoenix.particles) :
          /\ 0 <= phoenix.particles[i].life
          /\ phoenix.particles[i].life <= phoenix.particles[i].lifeMax
    /\ \A pt \in phoenix.ts : NGe(pt[2], Zero) /\ NGe(One, pt[2])

\* a tick carried a particle past its lifetime and left others in the pool
C16_Witness ==
  /\ phoenix # Idle
  /\ phoenix.op = "tick" /\ phoenix.particles # <<>>
  /\ \E r \in phoenix.removedNow : r.life > r.lifeMax

\* C24 (as claimed; violated by the code): while a scene is hidden its
\* animations are paused: a tick of the hidden fire scene neither spawns
\* nor ages a particle, and a timer callback of the hidden card scene moves
\* no card.
C24_HiddenScenePaused ==
  /\ (phoenix # Idle /\ ~phoenix.visible /\ phoenix.op = "tick") =>
        (~phoenix.spawnChanged /\ phoenix.ts = {})
  /\ (ace # Idle /\ ~ace.visible /\ ace.op = "moveTop") => ~ace.changed

\* the band of the age fraction t: the number of the bounds 0.2, 0.4, 0.6
\* and 0.8 that t has reached
FireBand(t) == Cardinality({k \in 1 .. 4 : NGe(t, Num(k, 5))})

\* the tint of a band
BandTint(b) ==
  CASE b = 0 -> WhiteHot
    [] b = 1 -> Yellow
    [] b = 2 -> Orange
    [] b = 3 -> RedOrange
    [] b = 4 -> DarkRed

\* the band of a tint of getFireColor
TintBand(tint) == CHOOSE b \in 0 .. 4 : BandTint(b) = tint

\* C30: the tint a tick gives a fire particle is the tint of the band of
\* its age fraction t (0xffffff for t < 0.2, 0xffaa00 for t < 0.4, 0xff6600
\* for t < 0.6, 0xff3300 for t < 0.8, 0xcc0000 otherwise) whatever the
\* colour intensity is, and the band of the tint of a fire particle never
\* decreases from a state to the next while the particle is in the pool;
\* the tint of a spark is 0xffffff, and no tick writes the tint of a smoke
\* particle
C30_FireTintBands ==
  [][phoenix # Idle =>
       /\ \A w \in phoenix'.tints :
             /\ w.texture # "smoke"
             /\ w.texture = "fire" => w.tint = BandTint(FireBand(w.t))
             /\ w.texture = "spark" => w.tint = White
       /\ \A j \in 1 .. Len(phoenix'.particles) :
             LET q == phoenix'.particles[j]
             IN /\ q.texture = "spark" => q.tint = White
                /\ q.texture = "fire" =>
                      /\ q.tint \in {BandTint(b) : b \in 0 .. 4}
                      /\ \A i \in 1 .. Len(phoenix.particles) :
                            phoenix.particles[i].id = q.id =>
                              TintBand(q.tint)
                                >= TintBand(phoenix.particles[i].tint)]_vars

\* a tick gave a fire particle the tint of the last band, another that of
\* a middle band and a spark its white, while a smoke particle was in the
\* pool
C30_Witness ==
  /\ phoenix # Idle
  /\ phoenix.op = "tick"
  /\ \E w \in phoenix.tints : w.texture = "fire" /\ w.tint = DarkRed
  /\ \E w \in phoenix.tints : w.texture = "fire" /\ w.tint = Orange
  /\ \E w \in phoenix.tints : w.texture = "spark"
  /\ \E i \in 1 .. Len(phoenix.particles) :
        phoenix.particles[i].texture = "smoke"

\* C31: the alpha a tick gives a particle is (1 - t) * intensity * flicker
\* with the flicker in [0.6, 1], lies in [0, intensity], and is 0 in the
\* tick in which t reaches 1; the alpha of a particle of the pool lies in
\* [0, intensity]
C31_AlphaFades ==
  phoenix # Idle =>
    /\ \A a \in phoenix.alphas :
          /\ NGe(a.flicker, Num(3, 5)) /\ NGe(One, a.flicker)
          /\ a.alpha = NMul(NMul(NSub(One, a.t), a.intensity), a.flicker)
          /\ NGe(a.alpha, Zero) /\ NGe(a.intensity, a.alpha)
          /\ a.t = One => a.alpha = Zero
    /\ \A r \in phoenix.removedNow :
          \E a \in phoenix.alphas : a.id = r.id /\ a.t = One
    /\ \A i \in 1 .. Len(phoenix.particles) :
          /\ NGe(phoenix.particles[i].alpha, Zero)
          /\ NGe(phoenix.particles[i].intensity, phoenix.particles[i].alpha)

\* a tick retired a particle and gave another a positive alpha under the
\* lowest flicker, and a third its alpha under the highest flicker
C31_Witness ==
  /\ phoenix # Idle
  /\ phoenix.op = "tick"
  /\ \E a \in phoenix.alphas : a.t = One /\ a.alpha = Zero
  /\ \E a \in phoenix.alphas :
        a.flicker = Num(3, 5) /\ NLess(Zero, a.alpha)
  /\ \E a \in phoenix.alphas : a.flicker = One /\ NLess(Zero, a.alpha)

\* C29: when the ticker goes on calling tick with a positive elapsed time,
\* every particle in the pool is retired in the end, and a full pool has a
\* free slot again in the end
C29_EventuallyRetired ==
  /\ \A id \in 1 .. MaxSpawned :
        (phoenix.spawned >= id /\ id \in PoolIds)
          ~> (/\ phoenix.spawned >= id /\ id \notin PoolIds
              /\ phoenix.released[id] = 1)
  /\ (Len(phoenix.particles) = maxSprites)
        ~> (Len(phoenix.particles) < maxSprites)

\* a tick spawned a particle into a pool that had been full
C29_Witness ==
  /\ phoenix # Idle
  /\ phoenix.op = "tick" /\ phoenix.spawnChanged
  /\ phoenix.spawned > maxSprites
  /\ \E id \in 1 .. phoenix.spawned : phoenix.released[id] = 1

----------------------------------------------------------------------------
(* AceOfShadowsScene *)

\* C17: a card in flight is carried by a tween the scene keeps in
\* activeTweens with its destination stack, where the callback that runs
\* when another card lands finds it and sets its destination y to the new
\* top of that stack
C17_InFlightRetargeted ==
  ace # Idle =>
    \A k \in 1 .. Len(ace.floating) :
      \E j \in 1 .. Len(ace.activeTweens) :
        /\ ace.activeTweens[j].sprite = ace.floating[k]
        /\ ace.activeTweens[j].dstIndex \in StackIndexes

\* C18: a moved card is brought by a tween of the engine to the top slot of
\* its destination, and the i-th card of every stack sits at y = i * overlap
C18_MovedCardLands ==
  ace # Idle =>
    /\ Len(ace.floating) <= Len(tweens)
    /\ \A s \in StackIndexes : \A k \in 1 .. Len(ace.stacks[s]) :
          ace.stacks[s][k].y = (k - 1) * overlap

\* the sum of the entries count[1], ... count[s]
RECURSIVE SumTo(_, _)
SumTo(count, s) == IF s = 0 THEN 0 ELSE count[s] + SumTo(count, s - 1)

\* C32: the cards of the four stacks and the cards in flight (detached from
\* their stack by a move and held by the view) are 144 together, the
\* entries of stacksCount sum to 144, and no entry is negative
C32_CardsConserved ==
  ace # Idle =>
    /\ SumTo([s \in StackIndexes |-> Len(ace.stacks[s])], stackCount)
         + Len(ace.floating) = stackCount * cardsPerStack
    /\ SumTo(ace.stacksCount, stackCount) = stackCount * cardsPerStack
    /\ \A s \in StackIndexes : ace.stacksCount[s] >= 0

\* a move took the last card of a stack while other cards were in flight
C32_Witness ==
  /\ ace # Idle
  /\ ace.op = "moveTop" /\ ace.src \in StackIndexes
  /\ ace.stacks[ace.src] = <<>> /\ ace.stacksCount[ace.src] = 0
  /\ Len(ace.floating) >= cardsPerStack

\* C39: stacksCount[s] is the number of the cards in stack s plus the
\* number of the cards in flight whose destination is s, for every stack s
C39_CountIsStackPlusInFlight ==
  ace # Idle =>
    /\ Len(ace.flightDst) = Len(ace.floating)
    /\ \A s \in StackIndexes :
          ace.stacksCount[s] =
            Len(ace.stacks[s])
              + Cardinality({k \in 1 .. Len(ace.flightDst) : ace.flightDst[k] = s})

\* two cards are in flight to a stack that has cards, after a move of any
\* draw
C39_Witness ==
  /\ ace # Idle
  /\ ace.op = "moveTop" /\ ~ace.first /\ ace.dst \in StackIndexes
  /\ ace.stacks[ace.dst] # <<>>
  /\ Cardinality({k \in 1 .. Len(ace.flightDst) :
                    ace.flightDst[k] = ace.dst}) >= 2

\* C19: a move takes the top card of a stack that has cards off that stack
\* and counts it in a destination stack other than the source; when every
\* stack is empty moveTop changes nothing
C19_MoveSelection ==
  (ace # Idle /\ ace.op = "moveTop") =>
    IF ace.emptyBefore
    THEN ~ace.changed /\ \A s \in StackIndexes : ace.stacks[s] = <<>>
    ELSE /\ ace.src \in StackIndexes /\ ace.dst \in StackIndexes
         /\ ace.dst # ace.src
         /\ ace.srcBefore # <<>>
         /\ ace.stacks[ace.src] = SubSeq(ace.srcBefore, 1, Len(ace.srcBefore) - 1)
         /\ ace.floating # <<>>
         /\ ace.floating[Len(ace.floating)] = ace.srcBefore[Len(ace.srcBefore)]
         /\ ace.stacksCount[ace.src] = ace.countBefore[ace.src] - 1
         /\ ace.stacksCount[ace.dst] = ace.countBefore[ace.dst] + 1
         /\ \A s \in StackIndexes \ {ace.src, ace.dst} :
               ace.stacksCount[s] = ace.countBefore[s]

\* a move took the last card of the last stack that had cards
C19_Witness ==
  /\ ace # Idle
  /\ ace.op = "moveTop" /\ ~ace.emptyBefore
  /\ \A s \in StackIndexes : ace.stacks[s] = <<>>

----------------------------------------------------------------------------
(* ImageLoader *)

\* C26 (as claimed; violated by the code): loadTexture with caching enabled
\* returns the texture cached for the URL without starting a load, and a
\* load made with cache: false leaves the cache as it was (getCacheSize()
\* is unchanged by it).
C26_CacheOptionHonoured ==
  loader # Idle =>
    /\ (/\ loader.op = "loadTexture" /\ loader.cache
         /\ loader.url \in DOMAIN loader.cachedBefore)
        => /\ ~loader.started
           /\ loader.returned = loader.cachedBefore[loader.url]
           /\ loader.textureCache = loader.cachedBefore
    /\ (loader.op \in {"loadTexture", "onload", "onerror", "timeout"}
         /\ ~loader.cache)
        => /\ loader.textureCache = loader.cachedBefore
           /\ getCacheSize(loader) = Cardinality(DOMAIN loader.cachedBefore)

----------------------------------------------------------------------------
\* C40: exactly one card-move interval timer is active, the one whose id
\* the scene holds, after construction and after every resize
C40_OneIntervalTimer ==
  ace # Idle =>
    /\ \A i, j \in ace.intervals : i = j
    /\ ace.intervals = {ace.topMoveInterval}

\* the window was resized after cards had been moved
C40_Witness ==
  /\ ace # Idle
  /\ ace.op = "resize"
  /\ ace.moves >= 2
  /\ ace.intervals # {}

\* C38 (as claimed; violated by the code): at most one frame callback of
\* the loop is waiting to run
C38_OneFramePending == frames <= 1

(* SceneManager *)

\* the keys of the scenes whose view is visible
VisibleScenes == {k \in SceneKeys : manager.visible[k]}

\* C33: no scene is visible after the construction of the scene manager and
\* until a scene is shown; from then on exactly one scene is visible, it is
\* the one getCurrentSceneKey() reports, and after a call of show(key) it
\* is the scene of key
C33_OneSceneVisible ==
  manager # Idle =>
    /\ manager.currentScene = "undefined" =>
          /\ VisibleScenes = {}
          /\ manager.op \in {"new", "goBack", "clearHistory"}
          /\ getCurrentSceneKey(manager) = "null"
    /\ manager.currentScene # "undefined" =>
          VisibleScenes = {getCurrentSceneKey(manager)}
    /\ manager.op = "show" => getCurrentSceneKey(manager) = manager.key

\* a scene was shown while another was the current one
C33_Witness ==
  /\ manager # Idle
  /\ manager.op = "show"
  /\ Len(manager.sceneHistory) >= 2
  /\ manager.sceneHistory[Len(manager.sceneHistory) - 1] # manager.key
  /\ VisibleScenes = {manager.key}

\* C34: goBack() returns false and changes nothing when the history holds
\* fewer than 2 entries; otherwise it returns true, the history loses its
\* last entry and nothing else, and the scene of the entry then last is the
\* current scene and the only visible one
C34_GoBack ==
  [][(manager # Idle /\ manager'.op = "goBack") =>
       IF Len(manager.sceneHistory) < 2
       THEN /\ ~manager'.returned
            /\ manager'.sceneHistory = manager.sceneHistory
            /\ manager'.currentScene = manager.currentScene
            /\ manager'.visible = manager.visible
       ELSE /\ manager'.returned
            /\ manager'.sceneHistory =
                 SubSeq(manager.sceneHistory, 1, Len(manager.sceneHistory) - 1)
            /\ manager'.currentScene =
                 manager.sceneHistory[Len(manager.sceneHistory) - 1]
            /\ {k \in SceneKeys : manager'.visible[k]}
                 = {manager'.currentScene}]_vars

\* goBack() returned true and went back to a scene other than the one that
\* was current
C34_Witness ==
  /\ manager # Idle
  /\ manager.op = "goBack" /\ manager.returned
  /\ manager.sizeBefore = Len(manager.sceneHistory) + 1
  /\ Len(manager.sceneHistory) >= 2
  /\ manager.sceneHistory[Len(manager.sceneHistory) - 1] # manager.currentScene

\* C35: the history never holds more than 10 entries; a show that adds to
\* a history of 10 entries drops the oldest of them, keeps the others in
\* their order and puts the new one last
C35_HistoryCapped ==
  [][manager # Idle =>
       /\ Len(manager'.sceneHistory) <= maxHistorySize
       /\ (manager'.op = "show" /\ manager'.added
             /\ Len(manager.sceneHistory) = maxHistorySize) =>
            manager'.sceneHistory
              = Append(Tail(manager.sceneHistory), manager'.key)]_vars

\* a show added an entry to a history of 10 entries that were not all the
\* same
C35_Witness ==
  /\ manager # Idle
  /\ manager.op = "show" /\ manager.added
  /\ manager.sizeBefore = maxHistorySize
  /\ Len(manager.sceneHistory) = maxHistorySize
  /\ manager.sceneHistory[1] # manager.sceneHistory[2]
  /\ manager.sceneHistory[maxHistorySize - 1] # manager.key

(* ResizeManager *)

\* the pending timeouts that will trigger the handlers
TriggerTimers == {t \in resizer.timers : t.callback = "triggerResize"}

====
